---- MODULE Spec2Model ----
(***************************************************************************)
(* Model of the memory core of the repository: the lockfree and guarded    *)
(* allocator backends, the dispatch table that selects between them and    *)
(* the leak detector that runs at process teardown.                        *)
(*                                                                         *)
(* Build modelled: 64-bit WIN32 (8-byte pointers), <cassert> assertions    *)
(* enabled, WITH_ASSERT_ABORT and WITH_ASAN undefined, so a diagnostic is  *)
(* printed and execution continues, while a failed assert() aborts.        *)
(*                                                                         *)
(* A block is identified by the slot 1..MaxBlocks the system allocator     *)
(* places it in; slot b covers the addresses [b*RegionSize,                *)
(* (b+1)*RegionSize).  uint32_t / size_t counters are plain integers: the  *)
(* runs modelled here never take them below zero.                          *)
(***************************************************************************)
EXTENDS Integers, Sequences, FiniteSets, TLC

\* ---- bounds of the model ------------------------------------------------
MaxBlocks == 2
MaxLen == 6
MaxData == 2
MaxSlots == 2
MaxUsable == 2
MaxValue == 2
MaxProbes == 12
InlineBufferCapacity == 2
MaxArraySize == 3
MaxThreads == 2
MaxHash == 255
WordBits == 6
MaxDenominator == 4

\* ---- program constants --------------------------------------------------
NULL == 0
ALIGNED_ALLOC_MINIMUM_ALIGNMENT == 8
ALIGNMENT_LIMIT == 1024
\* malloc / calloc return storage aligned to two pointers on this platform
MALLOC_ALIGNMENT == 2 * ALIGNED_ALLOC_MINIMUM_ALIGNMENT
SIZEOF_LOCKFREE_MEMHEAD == 8
SIZEOF_LOCKFREE_MEMHEADALIGNED == 16
SIZEOF_GUARDED_MEMHEAD == 56
MEMHEAD_FLAG_ALIGN == 1
MEMHEAD_FLAG_FROM_CPP_NEW == 2
MEMHEAD_FLAG_MASK == 3

MEMTAG1 == "MEMO"
MEMTAG2 == "RYBL"
MEMTAG3 == "OCK!"
MEMFREE == "FREE"
NOTAG == "----"

ALLOC_FREE == "ALLOC_FREE"
NEW_DELETE == "NEW_DELETE"
AllocationType == {ALLOC_FREE, NEW_DELETE}

LOCKFREE == "lockfree"
GUARDED == "guarded"

Blocks == 1..MaxBlocks
\* Lengths requested: one that is no multiple of 4 through mem_calloc, a
\* different one through mem_malloc_aligned.
CallocLens == {MaxLen \div 2}
AlignedLens == {MaxLen}
RegionSize == 4 * ALIGNMENT_LIMIT
Alignments == {3, 16, ALIGNMENT_LIMIT}
Tags == {"tag"}
NO_NAME == ""

\* The dispatch function pointers.
Entries == {"mem_free", "mem_malloc_aligned", "mem_calloc", "mem_print_memlist",
            "mem_set_error_callback", "mem_get_memory_in_use",
            "mem_get_memory_blocks_in_use", "mem_clear_memlist"}

\* ---- diagnostics --------------------------------------------------------
ERR_FREE_NULL == "attempt to free nullptr"
ERR_ILLEGAL_PTR == "attempt to free illegal pointer"
ERR_C_FREE_ON_NEW == "Attempt to use C-style mem_free on a pointer created with CPP-style mem_new"
ERR_DOUBLE_FREE == "double free"
ERR_AFTER_LEAK == "Freeing memory after the leak detector has run"
ERR_END_CORRUPT == "end corrupt"
ERR_HEADER == "error in header"
ERR_ALLOC_NULL == "alloc returns null"
ERR_OVERFLOW == "Malloc array aborted due to integer overflow"
ERR_ALSO_CORRUPT == "is also corrupt"
ERR_NOT_IN_MEMLIST == "pointer not in memlist"
ERR_ADDITIONAL == "Additional error in header"
ERR_MORE_THAN_1 == "MORE THAN 1 MEMORYBLOCK CORRUPT"
NO_NAME_FOUND == "No name found"

VARIABLES
  dispatch,               \* the function pointer table: entry -> backend
  mem,                    \* the heap: slot -> storage status and header words
  mem_base,               \* guarded: list base (first, last)
  tot_block,              \* guarded: live block counter
  mem_in_use,             \* guarded: live byte counter
  lf_block_num,           \* lockfree: memory_usage block counter
  lf_mem_in_use,          \* lockfree: memory_usage byte counter
  leak_detector_has_run,
  fail_on_memleak,
  printer_constructed,    \* the function-local static MemLeakPrinter exists
  data_vec,               \* number of data registered in add_memleak_data's data_vec
  phase,                  \* "running", "exit" (after static destruction began), "aborted"
  leak_report,            \* what ~MemLeakPrinter printed
  last,                   \* the last call: its arguments, result and diagnostics
  live,                   \* history: blocks returned by an allocation and not yet passed to free
  req,                    \* history: the length and the kind each block was requested with
  statics,                \* function-local statics, in the order their construction completed
  teardown,               \* statics whose destructor has run, in the order they ran
  slots_,                 \* HashMap: the slot array
  removed_slots_,         \* HashMap
  occupied_and_removed_slots_,
  usable_slots_,
  slot_mask_,
  hm_last,                \* HashMap: the last add call, its result and diagnostics
  added,                  \* HashMap history: the number of add calls that returned true
  vec,                    \* a Vector<T, InlineBufferCapacity>
  array_,                 \* an Array<T, InlineBufferCapacity>
  callbacks_,             \* CallbackHandler: its Vector of callbacks
  vector_,                \* VectorMap: its Vector of values (its map_ is the hash map)
  c_last,                 \* containers: the last call and its diagnostics
  thr,                    \* threads: the call each thread is in and its position in it
  thread_lock,            \* guarded: the thread that holds thread_lock (0: nobody)
  pure,                   \* the last call of a function on arguments alone, and its result
  error_callback,         \* backend -> the static error_callback of its translation unit
  registered              \* history: the function last passed to mem_set_error_callback

\* The variables of the hash map.
mapvars == <<slots_, removed_slots_, occupied_and_removed_slots_, usable_slots_,
             slot_mask_, hm_last, added>>

\* The variables of the allocator, the dispatch table and the leak detector.
memvars == <<dispatch, mem, mem_base, tot_block, mem_in_use, lf_block_num,
             lf_mem_in_use, leak_detector_has_run, fail_on_memleak, printer_constructed,
             data_vec, phase, leak_report, last, live, req, statics, teardown>>

\* The variables of the containers.
vecvars == <<vec, array_, callbacks_, vector_, c_last>>

\* The variables of the threads that call the allocator concurrently.
thrvars == <<thr, thread_lock>>

\* Everything the allocator and the leak detector do not touch.
\* The record of calls of functions that read no program state.
purevars == <<pure>>

\* The error callbacks of the two backends.
cbvars == <<error_callback, registered>>

restvars == <<mapvars, vecvars, thrvars, purevars, cbvars>>

vars == <<memvars, mapvars, vecvars, thrvars, purevars, cbvars>>

\* ---- pure helpers -------------------------------------------------------
RECURSIVE BitAnd(_, _)
BitAnd(a, b) ==
  IF a = 0 \/ b = 0 THEN 0
  ELSE (IF a % 2 = 1 /\ b % 2 = 1 THEN 1 ELSE 0) + 2 * BitAnd(a \div 2, b \div 2)

IS_POW2(a) == IF a = 0 THEN TRUE ELSE BitAnd(a, a - 1) = 0

SIZET_ALIGN_4(len) == (len + 3) - BitAnd(len + 3, 3)

MEMHEAD_ALIGN_PADDING_mut(alignment, sizeof_memheadaligned) ==
  sizeof_memheadaligned % alignment

MEMHEAD_ALIGN_PADDING(alignment, sizeof_memheadaligned) ==
  alignment - (sizeof_memheadaligned % alignment)

RECURSIVE SumOver(_, _)
SumOver(S, f) ==
  IF S = {} THEN 0
  ELSE LET x == CHOOSE y \in S : TRUE IN f[x] + SumOver(S \ {x}, f)

\* ---- the heap -----------------------------------------------------------
\* sys      : "unalloc" (never handed out or handed back) / "allocated"
\* base     : address returned by the system allocator
\* ptr      : payload address returned to the caller
\* owner    : backend that wrote the header
\* tag1..3  : guarded boundary tags
\* len      : the header's len word (lockfree: length with the flag bits or-ed in)
\* flag     : guarded MemHead::flag
\* alignment: MemHead(Aligned)::alignment
\* next/prev: guarded list links (slot ids, NULL for nullptr)
\* name     : guarded owner tag; next_name: tag of the next block in the list
\* zeroed   : payload is all zero bytes
NoBlock ==
  [sys |-> "unalloc", base |-> 0, ptr |-> 0, owner |-> "none",
   tag1 |-> NOTAG, tag2 |-> NOTAG, tag3 |-> NOTAG, len |-> 0, flag |-> 0,
   alignment |-> 0, next |-> NULL, prev |-> NULL, name |-> "", next_name |-> "",
   zeroed |-> FALSE]

NoCall == [op |-> "none", block |-> 0, ptr |-> 0, kind |-> "none", alignment |-> 0,
           result |-> 0, reports |-> {}, sysfree |-> <<>>, asserted |-> FALSE]

NoReport == [printed |-> FALSE, blocks |-> 0, bytes |-> 0, listing |-> <<>>]

\* Slot the system allocator places the next block in (0: out of memory).
FreeSlots == {b \in Blocks : mem[b].sys = "unalloc"}
NextSlot == IF FreeSlots = {} THEN 0 ELSE CHOOSE b \in FreeSlots : \A c \in FreeSlots : b <= c

\* Base address the system allocator returns in slot b: aligned to `alignment`
\* and to no larger power of two.
BaseAddr(b, alignment) == b * RegionSize + alignment

BlockOfPtr(p) == IF \E b \in Blocks : mem[b].sys = "allocated" /\ mem[b].ptr = p
                 THEN CHOOSE b \in Blocks : mem[b].sys = "allocated" /\ mem[b].ptr = p
                 ELSE 0

\* ---- guarded backend ----------------------------------------------------
\* The guarded backend's statics and the heap, as one value the functions of
\* memory_alloc_guarded.cpp transform.
\* peak_mem is written but never read by any function, so it is left out.
GState == [mem |-> mem, mem_base |-> mem_base, tot_block |-> tot_block,
           mem_in_use |-> mem_in_use]

add_tail_mut(g, b) ==
  LET l == g.mem_base.last
      m1 == [g.mem EXCEPT ![b].next = NULL, ![b].prev = NULL]
      m2 == IF l # NULL THEN [m1 EXCEPT ![l].next = b] ELSE m1
  IN [g EXCEPT !.mem = m2,
               !.mem_base = [first |-> IF g.mem_base.first = NULL THEN b
                                       ELSE g.mem_base.first,
                             last |-> b]]

add_tail(g, b) ==
  LET l == g.mem_base.last
      m1 == [g.mem EXCEPT ![b].next = NULL, ![b].prev = l]
      m2 == IF l # NULL THEN [m1 EXCEPT ![l].next = b] ELSE m1
  IN [g EXCEPT !.mem = m2,
               !.mem_base = [first |-> IF g.mem_base.first = NULL THEN b
                                       ELSE g.mem_base.first,
                             last |-> b]]

make_memhead_header_mut(g, b, len, str, allocation_type) ==
  LET m1 == [g.mem EXCEPT ![b].tag1 = MEMTAG1, ![b].name = str, ![b].next_name = NO_NAME,
                          ![b].len = len,
                          ![b].flag = IF allocation_type = NEW_DELETE
                                      THEN MEMHEAD_FLAG_FROM_CPP_NEW ELSE 0,
                          ![b].alignment = 0, ![b].tag2 = MEMTAG2, ![b].tag3 = MEMTAG3,
                          ![b].owner = GUARDED]
      g1 == [g EXCEPT !.mem = m1, !.tot_block = g.tot_block + 1]
      g2 == add_tail(g1, b)
  IN g2

make_memhead_header(g, b, len, str, allocation_type) ==
  LET m1 == [g.mem EXCEPT ![b].tag1 = MEMTAG1, ![b].name = str, ![b].next_name = NO_NAME,
                          ![b].len = len,
                          ![b].flag = IF allocation_type = NEW_DELETE
                                      THEN MEMHEAD_FLAG_FROM_CPP_NEW ELSE 0,
                          ![b].alignment = 0, ![b].tag2 = MEMTAG2, ![b].tag3 = MEMTAG3,
                          ![b].owner = GUARDED]
      g1 == [g EXCEPT !.mem = m1, !.tot_block = g.tot_block + 1,
                      !.mem_in_use = g.mem_in_use + len]
      g2 == add_tail(g1, b)
      \* memh->next is nullptr right after add_tail
      n == g2.mem[b].next
      g3 == IF n # NULL THEN [g2 EXCEPT !.mem[b].next_name = g2.mem[n].name] ELSE g2
  IN g3

remove_link(g, b) ==
  LET n == g.mem[b].next
      p == g.mem[b].prev
      m1 == IF n # NULL THEN [g.mem EXCEPT ![n].prev = p] ELSE g.mem
      m2 == IF p # NULL THEN [m1 EXCEPT ![p].next = n] ELSE m1
      l1 == IF g.mem_base.last = b THEN p ELSE g.mem_base.last
      f1 == IF g.mem_base.first = b THEN n ELSE g.mem_base.first
  IN [g EXCEPT !.mem = m2, !.mem_base = [first |-> f1, last |-> l1]]

remove_memblock_mut(g, b) ==
  LET g1 == remove_link(g, b)
  IN [g1 EXCEPT !.tot_block = g.tot_block - 1]

remove_memblock(g, b) ==
  LET g1 == remove_link(g, b)
      p == g1.mem[b].prev
      n == g1.mem[b].next
      m2 == IF p # NULL
            THEN [g1.mem EXCEPT ![p].next_name = IF n # NULL THEN g1.mem[n].name
                                                 ELSE NO_NAME]
            ELSE g1.mem
  IN [g1 EXCEPT !.mem = m2, !.tot_block = g.tot_block - 1,
                !.mem_in_use = g.mem_in_use - g.mem[b].len]

\* check_memlist's list walks.  `target` is the block searched for (-1: none);
\* the walk stops at the end of the list, at the target or at the first block
\* whose header tags are wrong, and remembers the last good block passed.
\* The lists of this model are acyclic, so MaxBlocks steps always suffice.
BadHeader(m, b) == m[b].tag1 # MEMTAG1 \/ m[b].tag2 # MEMTAG2

RECURSIVE WalkForw(_, _, _, _, _)
WalkForw(m, cur, ok, target, fuel) ==
  IF cur = NULL \/ fuel = 0 THEN [at |-> NULL, ok |-> ok]
  ELSE IF cur = target \/ BadHeader(m, cur) THEN [at |-> cur, ok |-> ok]
  ELSE WalkForw(m, m[cur].next, cur, target, fuel - 1)

RECURSIVE WalkBack(_, _, _, _, _)
WalkBack(m, cur, ok, target, fuel) ==
  IF cur = NULL \/ fuel = 0 THEN [at |-> NULL, ok |-> ok]
  ELSE IF cur = target \/ BadHeader(m, cur) THEN [at |-> cur, ok |-> ok]
  ELSE WalkBack(m, m[cur].prev, cur, target, fuel - 1)

\* Returns the list after the repair, the name returned (NO_NAME for nullptr)
\* and the diagnostics printed.
check_memlist(g, memh) ==
  LET m == g.mem
      f1 == WalkForw(m, g.mem_base.first, NULL, -1, MaxBlocks)
      b1 == WalkBack(m, g.mem_base.last, NULL, -1, MaxBlocks)
      clean == f1.at = NULL /\ b1.at = NULL
      f2 == IF clean THEN WalkForw(m, g.mem_base.first, NULL, memh, MaxBlocks) ELSE f1
      b2 == IF clean THEN WalkBack(m, g.mem_base.last, NULL, memh, MaxBlocks) ELSE b1
      forw == f2.at
      forwok == f2.ok
      backok == b2.ok
      name == IF forwok # NULL THEN m[forwok].next_name ELSE NO_NAME_FOUND
      unlinked ==
        IF forwok # NULL
        THEN IF backok # NULL
             THEN [g EXCEPT !.mem = [m EXCEPT ![forwok].next = backok,
                                              ![backok].prev = forwok,
                                              ![forwok].next_name = m[backok].name]]
             ELSE [g EXCEPT !.mem = [m EXCEPT ![forwok].next = NULL],
                            !.mem_base = [g.mem_base EXCEPT !.last = forwok]]
        ELSE IF backok # NULL
             THEN [g EXCEPT !.mem = [m EXCEPT ![backok].prev = NULL],
                            !.mem_base = [g.mem_base EXCEPT !.first = backok]]
             ELSE [g EXCEPT !.mem_base = [first |-> NULL, last |-> NULL]]
  IN IF f1.at # b1.at
     THEN [g |-> g, name |-> ERR_MORE_THAN_1, reports |-> {}]
     ELSE IF clean /\ forw = NULL
     THEN [g |-> g, name |-> NO_NAME, reports |-> {}]
     ELSE IF forw = memh
     THEN [g |-> unlinked, name |-> name, reports |-> {}]
     ELSE [g |-> g, name |-> ERR_ADDITIONAL, reports |-> {ERR_ADDITIONAL}]

\* The checks mem_guarded_free makes on the header before it frees.
guarded_cross_api_free(allocation_type, memh) ==
  allocation_type # NEW_DELETE /\ BitAnd(memh.flag, MEMHEAD_FLAG_FROM_CPP_NEW) # 0

guarded_double_free_mut(memh) == memh.tag1 = MEMFREE /\ memh.tag2 = MEMTAG2

guarded_double_free(memh) == memh.tag1 = MEMFREE /\ memh.tag2 = MEMFREE

guarded_after_leak_report_mut(has_run) == {}

guarded_after_leak_report(has_run) == IF has_run THEN {ERR_AFTER_LEAK} ELSE {}

\* mem_guarded_free on payload address `p` of slot `b` (0 when p is no payload
\* address).  Returns the new guarded state and the diagnostics printed.
mem_guarded_free(g, p, b, allocation_type, has_run) ==
  IF p = NULL THEN [g |-> g, reports |-> {ERR_FREE_NULL}]
  ELSE IF BitAnd(p, 7) # 0 THEN [g |-> g, reports |-> {ERR_ILLEGAL_PTR}]
  ELSE
    LET memh == g.mem[b]
        r1 == IF guarded_cross_api_free(allocation_type, memh)
              THEN {ERR_C_FREE_ON_NEW} ELSE {}
    IN IF guarded_double_free(memh)
       THEN [g |-> g, reports |-> r1 \cup {ERR_DOUBLE_FREE}]
       ELSE IF memh.tag1 = MEMTAG1 /\ memh.tag2 = MEMTAG2 /\ BitAnd(memh.len, 3) = 0
       THEN IF memh.tag3 = MEMTAG3
            THEN LET r2 == guarded_after_leak_report(has_run)
                     g1 == [g EXCEPT !.mem[b].tag1 = MEMFREE, !.mem[b].tag2 = MEMFREE,
                                     !.mem[b].tag3 = MEMFREE]
                 IN [g |-> remove_memblock(g1, b), reports |-> r1 \cup r2]
            ELSE LET c == check_memlist(g, b)
                     r3 == IF c.name # NO_NAME /\ c.name # memh.name
                           THEN {ERR_ALSO_CORRUPT} ELSE {}
                 IN [g |-> [c.g EXCEPT !.tot_block = c.g.tot_block - 1],
                     reports |-> r1 \cup {ERR_END_CORRUPT} \cup c.reports \cup r3]
       ELSE LET c == check_memlist(g, b)
            IN [g |-> [c.g EXCEPT !.tot_block = c.g.tot_block - 1],
                reports |-> r1 \cup c.reports \cup
                            (IF c.name = NO_NAME THEN {ERR_NOT_IN_MEMLIST}
                             ELSE {ERR_HEADER})]

\* The functions below take `slot`: the slot the system allocator serves the
\* request from, or 0 when the system allocation fails.
AlignmentAsserts(alignment) == alignment < ALIGNMENT_LIMIT /\ IS_POW2(alignment)

RaiseAlignment(alignment) ==
  IF alignment < ALIGNED_ALLOC_MINIMUM_ALIGNMENT THEN ALIGNED_ALLOC_MINIMUM_ALIGNMENT
  ELSE alignment

mem_guarded_malloc_aligned(g, slot, len0, alignment0, str, allocation_type) ==
  IF ~AlignmentAsserts(alignment0)
  THEN [g |-> g, block |-> 0, result |-> NULL, reports |-> {}, asserted |-> TRUE]
  ELSE
    LET alignment == RaiseAlignment(alignment0)
        extra_padding == MEMHEAD_ALIGN_PADDING(alignment, SIZEOF_GUARDED_MEMHEAD)
        len == SIZET_ALIGN_4(len0)
    IN IF slot # 0
       THEN LET base == BaseAddr(slot, alignment)
                memh == base + extra_padding
                g0 == [g EXCEPT !.mem[slot] = [NoBlock EXCEPT !.sys = "allocated",
                                                              !.base = base,
                                                              !.ptr = memh + SIZEOF_GUARDED_MEMHEAD]]
                g1 == make_memhead_header(g0, slot, len, str, allocation_type)
            IN [g |-> [g1 EXCEPT !.mem[slot].alignment = alignment],
                block |-> slot, result |-> memh + SIZEOF_GUARDED_MEMHEAD,
                reports |-> {}, asserted |-> FALSE]
       ELSE [g |-> g, block |-> 0, result |-> NULL, reports |-> {ERR_ALLOC_NULL},
             asserted |-> FALSE]

mem_guarded_calloc_mut(g, slot, len0, str) ==
  LET len == SIZET_ALIGN_4(len0)
  IN IF slot # 0
     THEN LET base == BaseAddr(slot, MALLOC_ALIGNMENT)
              g0 == [g EXCEPT !.mem[slot] = [NoBlock EXCEPT !.sys = "allocated",
                                                            !.base = base,
                                                            !.ptr = base + SIZEOF_GUARDED_MEMHEAD,
                                                            !.zeroed = TRUE]]
          IN [g |-> make_memhead_header(g0, slot, len, str, ALLOC_FREE),
              block |-> slot, result |-> base + SIZEOF_GUARDED_MEMHEAD,
              reports |-> {}, asserted |-> FALSE]
     ELSE [g |-> [g EXCEPT !.tot_block = g.tot_block + 1], block |-> 0, result |-> NULL,
           reports |-> {ERR_ALLOC_NULL}, asserted |-> FALSE]

mem_guarded_calloc(g, slot, len0, str) ==
  LET len == SIZET_ALIGN_4(len0)
  IN IF slot # 0
     THEN LET base == BaseAddr(slot, MALLOC_ALIGNMENT)
              g0 == [g EXCEPT !.mem[slot] = [NoBlock EXCEPT !.sys = "allocated",
                                                            !.base = base,
                                                            !.ptr = base + SIZEOF_GUARDED_MEMHEAD,
                                                            !.zeroed = TRUE]]
          IN [g |-> make_memhead_header(g0, slot, len, str, ALLOC_FREE),
              block |-> slot, result |-> base + SIZEOF_GUARDED_MEMHEAD,
              reports |-> {}, asserted |-> FALSE]
     ELSE [g |-> g, block |-> 0, result |-> NULL, reports |-> {ERR_ALLOC_NULL},
           asserted |-> FALSE]

\* ---- lockfree backend ---------------------------------------------------
LState == [mem |-> mem, block_num |-> lf_block_num, mem_in_use |-> lf_mem_in_use]

\* memory_usage counters (atomic add / sub on a block counter and a byte counter).
memory_usage_block_alloc(l, size) ==
  [l EXCEPT !.block_num = l.block_num + 1, !.mem_in_use = l.mem_in_use + size]

memory_usage_block_free_mut(l, size) ==
  [l EXCEPT !.block_num = l.block_num - 1]

memory_usage_block_free(l, size) ==
  [l EXCEPT !.block_num = l.block_num - 1, !.mem_in_use = l.mem_in_use - size]

MEMHEAD_IS_ALIGNED(memh) == BitAnd(memh.len, MEMHEAD_FLAG_ALIGN)
MEMHEAD_IS_FROM_CPP_NEW(memh) == BitAnd(memh.len, MEMHEAD_FLAG_FROM_CPP_NEW)
MEMHEAD_LEN(memh) == memh.len - BitAnd(memh.len, MEMHEAD_FLAG_MASK)

\* The system allocator takes back the storage whose base address is `addr`.
SysFree(m, addr) ==
  [b \in Blocks |-> IF m[b].sys = "allocated" /\ m[b].base = addr THEN NoBlock ELSE m[b]]

mem_lockfree_malloc_aligned(l, slot, len0, alignment0, str, allocation_type) ==
  IF ~AlignmentAsserts(alignment0)
  THEN [l |-> l, block |-> 0, result |-> NULL, reports |-> {}, asserted |-> TRUE]
  ELSE
    LET alignment == RaiseAlignment(alignment0)
        extra_padding == MEMHEAD_ALIGN_PADDING(alignment, SIZEOF_LOCKFREE_MEMHEADALIGNED)
        len == SIZET_ALIGN_4(len0)
    IN IF slot # 0
       THEN LET base == BaseAddr(slot, alignment)
                memh == base + extra_padding
                hdr == [NoBlock EXCEPT
                          !.sys = "allocated", !.base = base,
                          !.ptr = memh + SIZEOF_LOCKFREE_MEMHEADALIGNED,
                          !.owner = LOCKFREE,
                          !.len = len + MEMHEAD_FLAG_ALIGN
                                  + (IF allocation_type = NEW_DELETE
                                     THEN MEMHEAD_FLAG_FROM_CPP_NEW ELSE 0),
                          !.alignment = alignment]
            IN [l |-> memory_usage_block_alloc([l EXCEPT !.mem[slot] = hdr], len),
                block |-> slot, result |-> memh + SIZEOF_LOCKFREE_MEMHEADALIGNED,
                reports |-> {}, asserted |-> FALSE]
       ELSE [l |-> l, block |-> 0, result |-> NULL, reports |-> {ERR_ALLOC_NULL},
             asserted |-> FALSE]

mem_lockfree_calloc_mut(l, slot, len0, str) ==
  LET len == SIZET_ALIGN_4(len0)
  IN IF slot # 0
     THEN LET base == BaseAddr(slot, MALLOC_ALIGNMENT)
              hdr == [NoBlock EXCEPT !.sys = "allocated", !.base = base,
                                     !.ptr = base + SIZEOF_LOCKFREE_MEMHEAD,
                                     !.owner = LOCKFREE, !.len = len]
          IN [l |-> memory_usage_block_alloc([l EXCEPT !.mem[slot] = hdr], len),
              block |-> slot, result |-> base + SIZEOF_LOCKFREE_MEMHEAD,
              reports |-> {}, asserted |-> FALSE]
     ELSE [l |-> l, block |-> 0, result |-> NULL, reports |-> {ERR_ALLOC_NULL},
           asserted |-> FALSE]

mem_lockfree_calloc(l, slot, len0, str) ==
  LET len == SIZET_ALIGN_4(len0)
  IN IF slot # 0
     THEN LET base == BaseAddr(slot, MALLOC_ALIGNMENT)
              hdr == [NoBlock EXCEPT !.sys = "allocated", !.base = base,
                                     !.ptr = base + SIZEOF_LOCKFREE_MEMHEAD,
                                     !.owner = LOCKFREE, !.len = len, !.zeroed = TRUE]
          IN [l |-> memory_usage_block_alloc([l EXCEPT !.mem[slot] = hdr], len),
              block |-> slot, result |-> base + SIZEOF_LOCKFREE_MEMHEAD,
              reports |-> {}, asserted |-> FALSE]
     ELSE [l |-> l, block |-> 0, result |-> NULL, reports |-> {ERR_ALLOC_NULL},
           asserted |-> FALSE]

lockfree_cross_api_free_mut(allocation_type, memh) == FALSE

lockfree_cross_api_free(allocation_type, memh) ==
  allocation_type # NEW_DELETE /\ MEMHEAD_IS_FROM_CPP_NEW(memh) # 0

\* mem_lockfree_free on payload address `p` of slot `b`.  Returns the new
\* state, the diagnostics and the calls made to the system allocator.
mem_lockfree_free(l, p, b, allocation_type, has_run) ==
  LET r0 == IF has_run THEN {ERR_AFTER_LEAK} ELSE {}
  IN IF p = NULL THEN [l |-> l, reports |-> r0 \cup {ERR_FREE_NULL}, sysfree |-> <<>>]
     ELSE
       LET memh == l.mem[b]
           len == MEMHEAD_LEN(memh)
           r1 == IF lockfree_cross_api_free(allocation_type, memh)
                 THEN {ERR_C_FREE_ON_NEW} ELSE {}
           l1 == memory_usage_block_free(l, len)
           call == IF MEMHEAD_IS_ALIGNED(memh) # 0
                   THEN [fn |-> "aligned_free",
                         addr |-> (p - SIZEOF_LOCKFREE_MEMHEADALIGNED)
                                  - MEMHEAD_ALIGN_PADDING(memh.alignment,
                                                          SIZEOF_LOCKFREE_MEMHEADALIGNED)]
                   ELSE [fn |-> "free", addr |-> p - SIZEOF_LOCKFREE_MEMHEAD]
       IN [l |-> [l1 EXCEPT !.mem = SysFree(l1.mem, call.addr)],
           reports |-> r0 \cup r1, sysfree |-> <<call>>]

\* ---- dispatch layer -----------------------------------------------------
mem_get_memory_blocks_in_use ==
  IF dispatch["mem_get_memory_blocks_in_use"] = GUARDED THEN tot_block ELSE lf_block_num

mem_get_memory_in_use ==
  IF dispatch["mem_get_memory_in_use"] = GUARDED THEN mem_in_use ELSE lf_mem_in_use

\* mem_guarded_print_memlist_internal(0): the blocks printed, in order.
RECURSIVE PrintWalk(_, _, _)
PrintWalk(m, membl, fuel) ==
  IF membl = NULL \/ fuel = 0 THEN <<>>
  ELSE <<[block |-> membl, name |-> m[membl].name, len |-> m[membl].len]>>
       \o PrintWalk(m, m[membl].next, fuel - 1)

mem_print_memlist ==
  IF dispatch["mem_print_memlist"] = GUARDED
  THEN PrintWalk(mem, mem_base.first, MaxBlocks) ELSE <<>>

mem_clear_memlist_mut == mem_base

mem_clear_memlist ==
  IF dispatch["mem_clear_memlist"] = GUARDED THEN [first |-> NULL, last |-> NULL]
  ELSE mem_base

Running == phase \in {"running", "exit"}

\* Writes back the result of a guarded function.
SetGuarded(g) ==
  /\ mem' = g.mem
  /\ mem_base' = g.mem_base
  /\ tot_block' = g.tot_block
  /\ mem_in_use' = g.mem_in_use
  /\ UNCHANGED <<lf_block_num, lf_mem_in_use>>

\* Writes back the result of a lockfree function.
SetLockfree(l) ==
  /\ mem' = l.mem
  /\ lf_block_num' = l.block_num
  /\ lf_mem_in_use' = l.mem_in_use
  /\ UNCHANGED <<mem_base, tot_block, mem_in_use>>

\* Common tail of the two allocation entry points.
AllocReturn(r, op, len0, alignment, allocation_type) ==
  /\ last' = IF r.asserted
              THEN [NoCall EXCEPT !.op = op, !.alignment = alignment, !.asserted = TRUE]
              ELSE [NoCall EXCEPT !.op = op, !.block = r.block, !.ptr = r.result,
                                  !.result = r.result, !.kind = allocation_type,
                                  !.alignment = alignment, !.reports = r.reports]
  /\ phase' = IF r.asserted THEN "aborted" ELSE phase
  /\ live' = IF r.block # 0 THEN live \cup {r.block} ELSE live
  /\ req' = IF r.block # 0
             THEN [req EXCEPT ![r.block] = [len |-> len0, kind |-> allocation_type]]
             ELSE req
  /\ UNCHANGED <<dispatch, leak_detector_has_run, fail_on_memleak, printer_constructed,
                 data_vec, leak_report, statics, teardown>>

\* internal::mem_malloc_aligned through the function pointer; mem_new calls it
\* with NEW_DELETE, the raw API with ALLOC_FREE.
InternalMemMallocAligned(len, alignment, str, allocation_type, sys_ok) ==
  /\ phase = "running"
  /\ sys_ok => NextSlot # 0
  /\ LET slot == IF sys_ok THEN NextSlot ELSE 0
     IN IF dispatch["mem_malloc_aligned"] = GUARDED
        THEN LET r == mem_guarded_malloc_aligned(GState, slot, len, alignment, str,
                                                 allocation_type)
             IN SetGuarded(r.g) /\ AllocReturn(r, "mem_malloc_aligned", len, alignment, allocation_type)
        ELSE LET r == mem_lockfree_malloc_aligned(LState, slot, len, alignment, str,
                                                  allocation_type)
             IN SetLockfree(r.l) /\ AllocReturn(r, "mem_malloc_aligned", len, alignment, allocation_type)

\* mem_malloc_aligned / mem_new called by user code
MemMallocAligned(len, alignment, str, allocation_type, sys_ok) ==
  /\ InternalMemMallocAligned(len, alignment, str, allocation_type, sys_ok)
  /\ UNCHANGED restvars

\* mem_calloc
MemCalloc(len, str, sys_ok) ==
  /\ phase = "running"
  /\ UNCHANGED restvars
  /\ sys_ok => NextSlot # 0
  /\ LET slot == IF sys_ok THEN NextSlot ELSE 0
     IN IF dispatch["mem_calloc"] = GUARDED
        THEN LET r == mem_guarded_calloc(GState, slot, len, str)
             IN SetGuarded(r.g) /\ AllocReturn(r, "mem_calloc", len, 0, ALLOC_FREE)
        ELSE LET r == mem_lockfree_calloc(LState, slot, len, str)
             IN SetLockfree(r.l) /\ AllocReturn(r, "mem_calloc", len, 0, ALLOC_FREE)

\* ---- error callback -------------------------------------------------------
\* static void (*error_callback)(const char *) = nullptr, one in each backend.
NO_CALLBACK == "nullptr"
STDERR == "stderr"
ErrorCallbacks == {"callback_1", "callback_2"}

Callback_Init ==
  /\ error_callback = [be \in {LOCKFREE, GUARDED} |-> NO_CALLBACK]
  /\ registered = NO_CALLBACK

\* print_error of backend be: where the formatted text goes.
print_error(be) ==
  IF error_callback[be] # NO_CALLBACK THEN error_callback[be] ELSE STDERR

\* mem_set_error_callback(func) through the function pointer: the backend it
\* points to stores func in its own error_callback.
MemSetErrorCallback(func) ==
  /\ Running
  /\ error_callback' = [error_callback EXCEPT ![dispatch["mem_set_error_callback"]] = func]
  /\ registered' = func
  /\ last' = [NoCall EXCEPT !.op = "mem_set_error_callback"]
  /\ UNCHANGED <<dispatch, mem, mem_base, tot_block, mem_in_use, lf_block_num,
                 lf_mem_in_use, leak_detector_has_run, fail_on_memleak,
                 printer_constructed, data_vec, phase, leak_report, live, req, statics,
                 teardown, mapvars, vecvars, thrvars, purevars>>

\* Pointers a caller can pass to a free: nullptr, the payload address of a block
\* whose header the bound backend can still read (lockfree: a live block;
\* guarded: any block it ever allocated, its storage is never handed back) and,
\* in guarded mode, an address inside such a payload.
Readable(b) == mem[b].sys = "allocated" /\ mem[b].owner = dispatch["mem_free"]

FreeArgs ==
  {NULL} \cup {mem[b].ptr : b \in {c \in Blocks : Readable(c)}}
         \cup {mem[b].ptr + 4 : b \in {c \in Blocks : Readable(c)
                                                     /\ dispatch["mem_free"] = GUARDED}}

\* internal::mem_free through the function pointer.
InternalMemFree(p, allocation_type, op) ==
  LET b == BlockOfPtr(p)
  IN /\ IF dispatch["mem_free"] = GUARDED
        THEN LET r == mem_guarded_free(GState, p, b, allocation_type, leak_detector_has_run)
             IN /\ SetGuarded(r.g)
                /\ last' = [NoCall EXCEPT !.op = op, !.block = b, !.ptr = p,
                                          !.kind = allocation_type, !.reports = r.reports]
        ELSE LET r == mem_lockfree_free(LState, p, b, allocation_type, leak_detector_has_run)
             IN /\ SetLockfree(r.l)
                /\ last' = [NoCall EXCEPT !.op = op, !.block = b, !.ptr = p,
                                          !.kind = allocation_type, !.reports = r.reports,
                                          !.sysfree = r.sysfree]
     /\ live' = live \ {b}
     /\ UNCHANGED <<dispatch, leak_detector_has_run, fail_on_memleak, printer_constructed,
                    data_vec, phase, leak_report, req, statics, teardown>>

\* mem_free(ptr)
MemFree(p) ==
  /\ Running
  /\ InternalMemFree(p, ALLOC_FREE, "mem_free")
  /\ UNCHANGED restvars

\* mem_delete(ptr)
MemDelete(p) ==
  /\ Running
  /\ IF p = NULL
     THEN /\ last' = [NoCall EXCEPT !.op = "mem_delete", !.kind = NEW_DELETE]
          /\ UNCHANGED <<dispatch, mem, mem_base, tot_block, mem_in_use,
                         lf_block_num, lf_mem_in_use, leak_detector_has_run,
                         fail_on_memleak, printer_constructed, data_vec, phase,
                         leak_report, live, req, statics, teardown>>
     ELSE InternalMemFree(p, NEW_DELETE, "mem_delete")
  /\ UNCHANGED restvars

\* User code writes outside the payload of a live guarded block: past its end
\* (the tail tag) or before its start (a header tag).  The allocator learns of
\* it at the next free of the block.
GARBAGE == "????"
BoundaryTags == {"tag1", "tag2", "tag3"}

OverwriteTag(b, tag) ==
  /\ phase = "running"
  /\ dispatch["mem_free"] = GUARDED
  /\ b \in live
  /\ mem[b].owner = GUARDED
  /\ mem[b][tag] # GARBAGE
  /\ mem' = [mem EXCEPT ![b][tag] = GARBAGE]
  /\ last' = [NoCall EXCEPT !.op = "overwrite", !.block = b, !.ptr = mem[b].ptr]
  /\ UNCHANGED <<dispatch, mem_base, tot_block, mem_in_use, lf_block_num, lf_mem_in_use,
                 leak_detector_has_run, fail_on_memleak, printer_constructed, data_vec,
                 phase, leak_report, live, req, statics, teardown, restvars>>

mem_use_guarded_allocator_mut ==
  [e \in Entries |-> IF e = "mem_get_memory_in_use" THEN dispatch[e] ELSE GUARDED]

mem_use_guarded_allocator == [e \in Entries |-> GUARDED]

assert_for_allocator_change_mut == TRUE

assert_for_allocator_change == mem_get_memory_blocks_in_use = 0

\* mem_use_guarded_allocator()
UseGuardedAllocator ==
  /\ phase = "running"
  /\ IF assert_for_allocator_change
     THEN /\ dispatch' = mem_use_guarded_allocator
          /\ last' = [NoCall EXCEPT !.op = "mem_use_guarded_allocator"]
          /\ phase' = phase
     ELSE /\ dispatch' = dispatch
          /\ last' = [NoCall EXCEPT !.op = "mem_use_guarded_allocator", !.asserted = TRUE]
          /\ phase' = "aborted"
  /\ UNCHANGED <<mem, mem_base, tot_block, mem_in_use, lf_block_num,
                 lf_mem_in_use, leak_detector_has_run, fail_on_memleak,
                 printer_constructed, data_vec, leak_report, live, req, statics,
                 teardown, restvars>>

\* ---- leak detector ------------------------------------------------------
\* The function-local statics: the mutex and the vector of add_memleak_data
\* and the printer of mem_init_memleak_detection.  A static is constructed
\* the first time control passes its declaration.
STATIC_MUTEX == "mutex"
STATIC_DATA_VEC == "data_vec"
STATIC_PRINTER == "printer"

Constructed(s, x) == \E i \in 1..Len(s) : s[i] = x
ConstructOnce(s, x) == IF Constructed(s, x) THEN s ELSE Append(s, x)

\* internal::add_memleak_data(data): the statics and the number of entries of
\* data_vec after the call.  The body runs under the lock_guard.
add_memleak_data(s, n) ==
  [statics |-> ConstructOnce(ConstructOnce(s, STATIC_MUTEX), STATIC_DATA_VEC),
   data_vec |-> n + 1]

mem_init_memleak_detection_mut(s, n) ==
  LET s1 == ConstructOnce(s, STATIC_PRINTER)
  IN add_memleak_data(s1, n)

mem_init_memleak_detection_mut2(s, n) ==
  LET a == add_memleak_data(s, n)
  IN [a EXCEPT !.statics = Append(a.statics, STATIC_PRINTER)]

\* mem_init_memleak_detection(): registers a dummy datum, then constructs the
\* static printer.
mem_init_memleak_detection(s, n) ==
  LET a == add_memleak_data(s, n)
  IN [a EXCEPT !.statics = ConstructOnce(a.statics, STATIC_PRINTER)]

\* mem_init_memleak_detection()
InitMemleakDetection ==
  /\ phase = "running"
  /\ data_vec < MaxData
  /\ LET r == mem_init_memleak_detection(statics, data_vec)
     IN /\ data_vec' = r.data_vec
        /\ statics' = r.statics
        /\ printer_constructed' = Constructed(r.statics, STATIC_PRINTER)
  /\ last' = [NoCall EXCEPT !.op = "mem_init_memleak_detection"]
  /\ UNCHANGED <<dispatch, mem, mem_base, tot_block, mem_in_use, lf_block_num,
                 lf_mem_in_use, leak_detector_has_run, fail_on_memleak, phase,
                 leak_report, live, req, teardown, restvars>>

\* internal::add_memleak_data(data), called by user code
AddMemleakData ==
  /\ phase = "running"
  /\ data_vec < MaxData
  /\ LET r == add_memleak_data(statics, data_vec)
     IN /\ data_vec' = r.data_vec
        /\ statics' = r.statics
  /\ last' = [NoCall EXCEPT !.op = "add_memleak_data"]
  /\ UNCHANGED <<dispatch, mem, mem_base, tot_block, mem_in_use, lf_block_num,
                 lf_mem_in_use, leak_detector_has_run, fail_on_memleak,
                 printer_constructed, phase, leak_report, live, req, teardown, restvars>>

\* The start-up knob that sets the fail-on-leak policy.
EnableFailOnMemleak ==
  /\ phase = "running"
  /\ ~fail_on_memleak
  /\ fail_on_memleak' = TRUE
  /\ last' = [NoCall EXCEPT !.op = "enable_fail_on_memleak"]
  /\ UNCHANGED <<dispatch, mem, mem_base, tot_block, mem_in_use, lf_block_num,
                 lf_mem_in_use, leak_detector_has_run, printer_constructed, data_vec,
                 phase, leak_report, live, req, statics, teardown, restvars>>

MemLeakPrinter_dtor_mut ==
  LET leaked_blocks == mem_get_memory_blocks_in_use
  IN IF leaked_blocks = 0
     THEN [report |-> NoReport, mem_base |-> mem_base, abort |-> FALSE]
     ELSE [report |-> [printed |-> TRUE, blocks |-> leaked_blocks,
                       bytes |-> mem_get_memory_in_use, listing |-> mem_print_memlist],
           mem_base |-> mem_clear_memlist,
           abort |-> TRUE]

\* MemLeakPrinter::~MemLeakPrinter: the report printed, the list base after it
\* and whether abort() was called.
MemLeakPrinter_dtor ==
  LET leaked_blocks == mem_get_memory_blocks_in_use
  IN IF leaked_blocks = 0
     THEN [report |-> NoReport, mem_base |-> mem_base, abort |-> FALSE]
     ELSE [report |-> [printed |-> TRUE, blocks |-> leaked_blocks,
                       bytes |-> mem_get_memory_in_use, listing |-> mem_print_memlist],
           mem_base |-> mem_clear_memlist,
           abort |-> fail_on_memleak]

\* Static destruction: the destructors run in the reverse order of the
\* completion of the constructors; abort() in a destructor ends the process
\* before any further destructor runs.
Reverse(s) == [i \in 1..Len(s) |-> s[Len(s) + 1 - i]]

RECURSIVE DestructorsRun(_, _)
DestructorsRun(order, aborts) ==
  IF order = <<>> THEN <<>>
  ELSE IF Head(order) = STATIC_PRINTER /\ aborts THEN <<STATIC_PRINTER>>
  ELSE <<Head(order)>> \o DestructorsRun(Tail(order), aborts)

\* Process exit: the static objects are destroyed, the MemLeakPrinter (if it
\* was constructed) among them.
ProcessExit ==
  /\ phase = "running"
  /\ IF printer_constructed
     THEN LET d == MemLeakPrinter_dtor
              run == DestructorsRun(Reverse(statics), d.abort)
          IN /\ leak_detector_has_run' = TRUE
             /\ leak_report' = d.report
             /\ mem_base' = d.mem_base
             /\ phase' = IF d.abort THEN "aborted" ELSE "exit"
             /\ teardown' = run
     ELSE /\ phase' = "exit"
          /\ teardown' = DestructorsRun(Reverse(statics), FALSE)
          /\ UNCHANGED <<leak_detector_has_run, leak_report, mem_base>>
  /\ last' = [NoCall EXCEPT !.op = "exit"]
  /\ UNCHANGED <<dispatch, mem, tot_block, mem_in_use, lf_block_num,
                 lf_mem_in_use, fail_on_memleak, printer_constructed, data_vec, live, req,
                 statics, restvars>>

\* ---- hash map -----------------------------------------------------------
\* HashMap<StringRef, size_t>, the instantiation VectorMap makes for the
\* command table.  A key is the sequence of its character codes.  Tables of
\* up to 8 slots live in the inline buffer of the slot array, so the map of
\* this model never calls the allocator.
EMPTY == "Empty"
OCCUPIED == "Occupied"
REMOVED == "Removed"

Keys == {<<97>>, <<65, 97>>, <<66, 64>>}
Values == 1..MaxValue
Throws == {"none", "key", "value"}

\* Values an uninitialised int64_t local may hold.
UninitTotalSlots == 1..MaxSlots
UninitUsableSlots == 0..MaxUsable

ERR_TODO == "Not implemented yet."
ERR_CANNOT_ADD == "occupied_and_removed_slots_ < usable_slots_"
ERR_INDEX == "index < size_"

\* hash_string: 5381 seed, hash * 33 + c per character.  The keys of this
\* model are short enough for the uint64_t not to wrap.
RECURSIVE hash_string_from(_, _)
hash_string_from(hash, str) ==
  IF str = <<>> THEN hash ELSE hash_string_from(hash * 33 + Head(str), Tail(str))

hash_string(str) == hash_string_from(5381, str)

\* DefaultEquality
is_equal(a, b) == a = b

\* A slot: its state and its two buffers; key_live / value_live tell whether
\* the buffer holds a constructed object.
EmptySlot == [state |-> EMPTY, key |-> <<>>, value |-> 0,
              key_live |-> FALSE, value_live |-> FALSE]

is_empty(slot) == slot.state = EMPTY
is_occupied(slot) == slot.state = OCCUPIED

contains(slot, key) == IF slot.state = OCCUPIED THEN is_equal(key, slot.key) ELSE FALSE

occupy_no_value_mut(slot, key, throws) ==
  IF throws = "key"
  THEN [slot |-> slot, thrown |-> TRUE]
  ELSE [slot |-> [slot EXCEPT !.key = key, !.key_live = TRUE, !.state = OCCUPIED],
        thrown |-> FALSE]

\* occupy_no_value: the key is constructed; when its constructor throws the
\* value is destroyed and the exception is passed on.
occupy_no_value(slot, key, throws) ==
  IF throws = "key"
  THEN [slot |-> [slot EXCEPT !.value = 0, !.value_live = FALSE], thrown |-> TRUE]
  ELSE [slot |-> [slot EXCEPT !.key = key, !.key_live = TRUE, !.state = OCCUPIED],
        thrown |-> FALSE]

\* occupy: the value is constructed first, then the key.
occupy(slot, key, value, throws) ==
  IF throws = "value"
  THEN [slot |-> slot, thrown |-> TRUE]
  ELSE occupy_no_value([slot EXCEPT !.value = value, !.value_live = TRUE], key, throws)

\* PythonProbingStrategy<1, false>.  hash_ is a uint64_t of which only the
\* bits under the slot mask are read, so it is kept modulo ProbeModulus, a
\* power of two above every mask of this model.
ProbeModulus == 2^16
probing_strategy(hash) == [hash_ |-> hash, perturb_ |-> hash]

probing_next_mut(ps) ==
  LET perturb == ps.perturb_ \div 32
  IN [hash_ |-> (5 * ps.hash_ + perturb) % ProbeModulus, perturb_ |-> perturb]

probing_next(ps) ==
  LET perturb == ps.perturb_ \div 32
  IN [hash_ |-> (5 * ps.hash_ + 1 + perturb) % ProbeModulus, perturb_ |-> perturb]

\* The hash map's members as one value.
HState == [slots |-> slots_, removed |-> removed_slots_,
           occ |-> occupied_and_removed_slots_, usable |-> usable_slots_,
           mask |-> slot_mask_]

size(h) == h.occ - h.removed

\* Array<Slot>(size): `size` default-constructed slots.
SlotArray(n) == [i \in 1..n |-> EmptySlot]

\* Array::reinitialize(new_size)
reinitialize(new_size) == SlotArray(new_size)

\* realloc_and_reinsert.  compute_total_and_usable_slots is a stub that writes
\* neither of its outputs, so total_slots and usable_slots are the values the
\* two uninitialised locals happen to hold.  In a map that is not empty the
\* reinsertion of an occupied slot is a stub too, and so is the move
\* assignment of the new slot array, which moreover flows off the end of a
\* function that returns a reference: it either returns (move_returns) or
\* the process is lost.
realloc_and_reinsert(h, min_usable_slots, total_slots, usable_slots, move_returns) ==
  LET new_slot_mask == total_slots - 1
  IN IF size(h) = 0
     THEN [h |-> [slots |-> reinitialize(total_slots), removed |-> 0, occ |-> 0,
                  usable |-> usable_slots, mask |-> new_slot_mask],
           new_slots |-> reinitialize(total_slots),
           lost |-> FALSE, reports |-> {ERR_TODO}]
     ELSE LET new_slots == SlotArray(total_slots)
          IN IF move_returns
             THEN [h |-> [h EXCEPT !.occ = h.occ - h.removed, !.usable = usable_slots,
                                   !.removed = 0, !.mask = new_slot_mask],
                   new_slots |-> new_slots, lost |-> FALSE, reports |-> {ERR_TODO}]
             ELSE [h |-> h, new_slots |-> new_slots, lost |-> TRUE,
                   reports |-> {ERR_TODO}]

ensure_can_add(h, total_slots, usable_slots, move_returns) ==
  IF h.occ >= h.usable
  THEN LET r == realloc_and_reinsert(h, size(h) + 1, total_slots, usable_slots,
                                     move_returns)
       IN [h |-> r.h, grew |-> TRUE, new_slots |-> r.new_slots, lost |-> r.lost,
           reports |-> r.reports \cup (IF ~r.lost /\ ~(r.h.occ < r.h.usable)
                                       THEN {ERR_CANNOT_ADD} ELSE {})]
  ELSE [h |-> h, grew |-> FALSE, new_slots |-> <<>>, lost |-> FALSE, reports |-> {}]

\* The probing loop of add_impl: the first slot of the sequence that is empty
\* or contains the key.  "out_of_bounds": the index is no index of the slot
\* array; "hang": the sequence has become periodic without reaching such a slot.
RECURSIVE probe(_, _, _, _)
probe(h, key, ps, fuel) ==
  IF fuel = 0 THEN [kind |-> "hang", idx |-> 0]
  ELSE LET slot_index == BitAnd(ps.hash_, h.mask)
       IN IF slot_index >= Len(h.slots)
          THEN [kind |-> "out_of_bounds", idx |-> slot_index]
          ELSE IF is_empty(h.slots[slot_index + 1])
          THEN [kind |-> "empty", idx |-> slot_index]
          ELSE IF contains(h.slots[slot_index + 1], key)
          THEN [kind |-> "found", idx |-> slot_index]
          ELSE probe(h, key, probing_next(ps), fuel - 1)

NoAdd == [key |-> <<>>, throws |-> "none", result |-> "none", idx |-> 0,
          grew |-> FALSE, new_slots |-> <<>>, reports |-> {}]

\* The record of an add call that went through ensure_can_add (result e) and
\* whose probing loop ended as p.
AddCall(e, p, key, throws, result) ==
  [key |-> key, throws |-> throws, result |-> result,
   idx |-> IF e.lost THEN 0 ELSE p.idx, grew |-> e.grew, new_slots |-> e.new_slots,
   reports |-> e.reports \cup (IF ~e.lost /\ p.kind = "out_of_bounds" THEN {ERR_INDEX}
                               ELSE {})]

\* add_impl, the probing loop has reached an empty slot: it is occupied and
\* the counter is incremented, unless a constructor throws.
add_impl_occupy(e, p, o, key, throws) ==
  IF o.thrown
  THEN [h |-> [e.h EXCEPT !.slots[p.idx + 1] = o.slot],
        call |-> AddCall(e, p, key, throws, "throw")]
  ELSE [h |-> [e.h EXCEPT !.slots[p.idx + 1] = o.slot, !.occ = e.h.occ + 1],
        call |-> AddCall(e, p, key, throws, "true")]

add_impl_found_mut(e, p, key, throws) ==
  [h |-> [e.h EXCEPT !.occ = e.h.occ + 1], call |-> AddCall(e, p, key, throws, "false")]

\* add_impl, the probing loop has reached a slot that contains the key.
add_impl_found(e, p, key, throws) ==
  [h |-> e.h, call |-> AddCall(e, p, key, throws, "false")]

\* add_impl after ensure_can_add and the probing loop.
add_impl_probed(e, p, key, value, throws) ==
  IF e.lost THEN [h |-> e.h, call |-> AddCall(e, p, key, throws, "lost")]
  ELSE IF p.kind = "hang" THEN [h |-> e.h, call |-> AddCall(e, p, key, throws, "hang")]
  ELSE IF p.kind = "out_of_bounds"
  THEN [h |-> e.h, call |-> AddCall(e, p, key, throws, "lost")]
  ELSE IF p.kind = "found" THEN add_impl_found(e, p, key, throws)
  ELSE add_impl_occupy(e, p, occupy(e.h.slots[p.idx + 1], key, value, throws), key, throws)

add_impl_ensured(e, key, hash, value, throws) ==
  add_impl_probed(e, probe(e.h, key, probing_strategy(hash), MaxProbes), key, value, throws)

\* add_impl: the map after the call and the record of the call.  result is
\* "true" / "false" (the value returned), "throw" (an exception leaves add),
\* "hang" (the probing loop never ends) or "lost" (the process is lost to an
\* access outside the slot array or to the move assignment).
add_impl(h, key, hash, value, total_slots, usable_slots, move_returns, throws) ==
  add_impl_ensured(ensure_can_add(h, total_slots, usable_slots, move_returns),
                   key, hash, value, throws)

\* HashMap::HashMap(): one empty slot, every counter and the mask zero.
HashMap_Init ==
  /\ slots_ = SlotArray(1)
  /\ removed_slots_ = 0
  /\ occupied_and_removed_slots_ = 0
  /\ usable_slots_ = 0
  /\ slot_mask_ = 0
  /\ hm_last = NoAdd
  /\ added = 0

\* Writes back the result of an add call.
SetMap(r) ==
  /\ slots_' = r.h.slots
  /\ removed_slots_' = r.h.removed
  /\ occupied_and_removed_slots_' = r.h.occ
  /\ usable_slots_' = r.h.usable
  /\ slot_mask_' = r.h.mask
  /\ hm_last' = r.call
  /\ added' = IF r.call.result = "true" THEN added + 1 ELSE added

\* HashMap::add(key, value).  total_slots, usable_slots and move_returns are
\* read by realloc_and_reinsert only, so a call that does not reach it is
\* taken for one choice of them.
HashMapAdd(key, value, total_slots, usable_slots, move_returns, throws) ==
  /\ hm_last.result \notin {"hang", "lost"}
  /\ occupied_and_removed_slots_ < usable_slots_
       => (total_slots = 1 /\ usable_slots = 0 /\ move_returns)
  /\ SetMap(add_impl(HState, key, hash_string(key), value, total_slots, usable_slots,
                     move_returns, throws))
  /\ UNCHANGED <<memvars, vecvars, thrvars, purevars, cbvars>>

\* ---- Vector, Array, CallbackHandler, VectorMap ---------------------------
\* Containers of a trivially copyable, pointer-sized T, instantiated with the
\* template parameter InlineBufferCapacity.  A pointer into a buffer is the
\* buffer and an offset counted in elements.
INLINE_BUFFER == "inline_buffer_"
HEAP_BLOCK == "allocated"
ERR_SPACE == "end_ < capacity_end_"

VecValues == 1..MaxValue
MaxAppend == InlineBufferCapacity + 1

\* What a write behind the last element of the inline buffer does: the value
\* stays readable there, something else overwrites it (debug_size_ lies
\* behind the buffer), or the process is lost.
OutOfBounds == {"kept", "clobbered", "lost"}

NoContainerCall == [op |-> "none", arg |-> 0, result |-> 0, reports |-> {}]

\* Vector::Vector(): begin_ and end_ at the inline buffer, capacity_end_
\* InlineBufferCapacity elements behind it.  `data` is what operator[] reads
\* at each index below end_, `appended` the values passed to append so far.
Vector_ctor ==
  [begin_ |-> INLINE_BUFFER, end_ |-> 0, capacity_end_ |-> InlineBufferCapacity,
   data |-> <<>>, appended |-> <<>>, lost |-> FALSE]

vector_size(v) == v.end_
capacity(v) == v.capacity_end_
is_inline(v) == v.begin_ = INLINE_BUFFER

\* realloc_to_at_least: returns when the capacity suffices and is a stub that
\* changes nothing otherwise.
realloc_to_at_least(v, min_capacity) ==
  IF capacity(v) >= min_capacity THEN [v |-> v, reports |-> {}]
  ELSE [v |-> v, reports |-> {ERR_TODO}]

ensure_space_for_one(v) ==
  IF v.end_ >= v.capacity_end_ THEN realloc_to_at_least(v, vector_size(v) + 1)
  ELSE [v |-> v, reports |-> {}]

\* append_unchecked_as: the failed assertion is printed and the element is
\* constructed at end_ all the same, inside the buffer or behind it.
append_unchecked_as(v, value, oob) ==
  LET inside == v.end_ < v.capacity_end_
  IN [v |-> [v EXCEPT !.data = Append(v.data, IF inside \/ oob = "kept" THEN value ELSE 0),
                      !.end_ = v.end_ + 1,
                      !.appended = Append(v.appended, value),
                      !.lost = ~inside /\ oob = "lost"],
      reports |-> IF inside THEN {} ELSE {ERR_SPACE}]

append_as(v, value, oob) ==
  LET e == ensure_space_for_one(v)
      a == append_unchecked_as(e.v, value, oob)
  IN [v |-> a.v, reports |-> e.reports \cup a.reports]

\* Vector::prepend: a stub.
prepend(v, value) == [v |-> v, reports |-> {ERR_TODO}]

\* Vector::append(value)
VectorAppend(value, oob) ==
  /\ ~vec.lost /\ vector_size(vec) < MaxAppend
  /\ LET a == append_as(vec, value, oob)
     IN /\ vec' = a.v
        /\ c_last' = [NoContainerCall EXCEPT !.op = "append", !.arg = value,
                                             !.reports = a.reports]
  /\ UNCHANGED <<memvars, mapvars, thrvars, purevars, cbvars, array_, callbacks_, vector_>>

\* Vector::prepend(value)
VectorPrepend(value) ==
  /\ ~vec.lost
  /\ LET a == prepend(vec, value)
     IN /\ vec' = a.v
        /\ c_last' = [NoContainerCall EXCEPT !.op = "prepend", !.arg = value,
                                             !.reports = a.reports]
  /\ UNCHANGED <<memvars, mapvars, thrvars, purevars, cbvars, array_, callbacks_, vector_>>

\* Vector::~Vector, after which a new Vector is constructed: begin_ is handed
\* to the allocator's deallocate unless the vector is inline (result: the
\* number of blocks handed back).
VectorDestruct ==
  /\ ~vec.lost /\ vector_size(vec) > 0
  /\ vec' = Vector_ctor
  /\ c_last' = [NoContainerCall EXCEPT !.op = "~Vector",
                                       !.result = IF is_inline(vec) THEN 0 ELSE 1]
  /\ UNCHANGED <<memvars, mapvars, thrvars, purevars, cbvars, array_, callbacks_, vector_>>

\* CallbackHandler::add_callback(pcb, event, pud, insert); cb stands for the
\* Callback built from the first three arguments.
CB_ADD_FRONT == "CB_ADD_FRONT"
CB_ADD_END == "CB_ADD_END"

AddCallback(cb, insert, oob) ==
  /\ ~callbacks_.lost /\ vector_size(callbacks_) < MaxAppend
  /\ LET a == IF insert = CB_ADD_END THEN append_as(callbacks_, cb, oob)
              ELSE prepend(callbacks_, cb)
     IN /\ callbacks_' = a.v
        /\ c_last' = [NoContainerCall EXCEPT !.op = insert, !.arg = cb,
                                             !.reports = a.reports]
  /\ UNCHANGED <<memvars, mapvars, thrvars, purevars, cbvars, vec, array_, vector_>>

\* Array: data_ is the inline buffer or what the allocator returned (ptr, the
\* null pointer when the allocation failed).
NoArray == [alive |-> FALSE, data_ |-> INLINE_BUFFER, ptr |-> NULL, size_ |-> 0]

\* Array::Array(size): get_buffer_for_size returns the inline buffer for up to
\* InlineBufferCapacity elements; beyond it allocate goes to mem_malloc_aligned
\* with size * sizeof(T) bytes and alignof(T).
ArrayConstruct(n, sys_ok) ==
  /\ ~array_.alive
  /\ IF n <= InlineBufferCapacity
     THEN /\ array_' = [alive |-> TRUE, data_ |-> INLINE_BUFFER, ptr |-> NULL, size_ |-> n]
          /\ UNCHANGED memvars
     ELSE /\ InternalMemMallocAligned(n * 8, 8, "tag", ALLOC_FREE, sys_ok)
          /\ array_' = [alive |-> TRUE, data_ |-> HEAP_BLOCK, ptr |-> last'.result,
                        size_ |-> n]
  /\ c_last' = [NoContainerCall EXCEPT !.op = "Array", !.arg = n]
  /\ UNCHANGED <<mapvars, thrvars, purevars, cbvars, vec, callbacks_, vector_>>

\* Array::~Array: deallocate_if_not_inline hands data_ to mem_free.
ArrayDestruct ==
  /\ array_.alive
  /\ IF array_.data_ = INLINE_BUFFER
     THEN UNCHANGED memvars
     ELSE Running /\ InternalMemFree(array_.ptr, ALLOC_FREE, "mem_free")
  /\ array_' = NoArray
  /\ c_last' = [NoContainerCall EXCEPT !.op = "~Array", !.arg = array_.size_]
  /\ UNCHANGED <<mapvars, thrvars, purevars, cbvars, vec, callbacks_, vector_>>

\* VectorMap::add(key, value): the value is appended to vector_
\* (append_and_get_index returns the size before the append), then that index
\* is added to map_ under the key.
VectorMapAdd(key, value, total_slots, usable_slots, move_returns, oob) ==
  /\ hm_last.result \notin {"hang", "lost"}
  /\ vector_size(vector_) < MaxAppend
  /\ occupied_and_removed_slots_ < usable_slots_
       => (total_slots = 1 /\ usable_slots = 0 /\ move_returns)
  /\ vector_size(vector_) < capacity(vector_) => oob = "kept"
  /\ LET index == vector_size(vector_)
         a == append_as(vector_, value, oob)
     IN /\ vector_' = a.v
        /\ SetMap(IF a.v.lost
                  THEN [h |-> HState, call |-> [NoAdd EXCEPT !.key = key, !.result = "lost"]]
                  ELSE add_impl(HState, key, hash_string(key), index, total_slots,
                                usable_slots, move_returns, "none"))
        /\ c_last' = [NoContainerCall EXCEPT !.op = "VectorMap::add", !.arg = value,
                                             !.result = index, !.reports = a.reports]
  /\ UNCHANGED <<memvars, thrvars, purevars, cbvars, vec, array_, callbacks_>>

\* ~SimpleMapSlot: an occupied slot runs the destructors of its key and its
\* value; state_ is left as it is.
slot_dtor(slot) ==
  IF is_occupied(slot) THEN [slot EXCEPT !.key_live = FALSE, !.value_live = FALSE]
  ELSE slot

\* The member destructors ~VectorMap runs, in order: its body calls
\* map_.~MapType() and vector_.~VectorType(), after which the members are
\* destroyed once more, in reverse order of declaration.
MemberDestructors == <<"map_", "vector_", "vector_", "map_">>

\* Runs the member destructors over the slot array s.  ~HashMap is ~Array of
\* the slots: destruct_n runs ~Slot on each of them (the key is a string, so
\* the slot is not trivially destructible).  ~Vector: destruct_n returns at
\* once for the trivially destructible T, and begin_ is deallocated unless
\* the vector is inline.  runs counts the calls of ~Key, those of them on a
\* key that is not alive, and the calls of deallocate.
RECURSIVE destroy_members(_, _, _)
destroy_members(members, s, runs) ==
  IF members = <<>> THEN runs
  ELSE IF Head(members) = "map_"
  THEN LET occupied == {i \in DOMAIN s : is_occupied(s[i])}
       IN destroy_members(Tail(members), [i \in DOMAIN s |-> slot_dtor(s[i])],
            [runs EXCEPT !.key_dtors = @ + Cardinality(occupied),
                         !.dead_key_dtors =
                           @ + Cardinality({i \in occupied : ~s[i].key_live})])
  ELSE destroy_members(Tail(members), s,
         [runs EXCEPT !.deallocate = @ + IF is_inline(vector_) THEN 0 ELSE 1])

\* VectorMap::~VectorMap, after which a new VectorMap is constructed.  arg:
\* the keys alive before the call; result: the calls of ~Key, of ~Key on a
\* key that is not alive, and of deallocate.
VectorMapDestruct ==
  /\ hm_last.result \notin {"hang", "lost"}
  /\ ~vector_.lost /\ vector_size(vector_) > 0
  /\ c_last' = [NoContainerCall EXCEPT
                  !.op = "~VectorMap",
                  !.arg = Cardinality({i \in DOMAIN slots_ : slots_[i].key_live}),
                  !.result = destroy_members(MemberDestructors, slots_,
                               [key_dtors |-> 0, dead_key_dtors |-> 0, deallocate |-> 0])]
  /\ vector_' = Vector_ctor
  /\ slots_' = SlotArray(1)
  /\ removed_slots_' = 0
  /\ occupied_and_removed_slots_' = 0
  /\ usable_slots_' = 0
  /\ slot_mask_' = 0
  /\ hm_last' = NoAdd
  /\ added' = 0
  /\ UNCHANGED <<memvars, thrvars, purevars, cbvars, vec, array_, callbacks_>>

Containers_Init ==
  /\ vec = Vector_ctor
  /\ array_ = NoArray
  /\ callbacks_ = Vector_ctor
  /\ vector_ = Vector_ctor
  /\ c_last = NoContainerCall

\* ---- threads ------------------------------------------------------------
\* Several threads call the allocator at the same time.  A call is a
\* sequence of steps; between two steps of one thread the others may run.
\* Statements that touch only the caller's own block are part of the step
\* that precedes them.
Threads == 1..MaxThreads
ThreadAlignment == 2 * ALIGNED_ALLOC_MINIMUM_ALIGNMENT
AllocCalls == {"mem_calloc", "mem_malloc_aligned"}
\* mem_free of a block that other threads may free at the same time: the
\* stores to the block's tags are then steps on shared state too.
FREE_SHARED == "mem_free (shared block)"
FreeCalls == {"mem_free", FREE_SHARED}

\* op     : the call the thread is in, or returned from last
\* be     : the backend the function pointer pointed to when it was called
\* at     : position in Program(op, be); 0 when the thread is in no call
\* block  : the block the call is about; len: its length as the call knows it
\* result : what a counter query read
\* raced  : history, another thread was inside a call during this one
\* reports: the diagnostics the call printed
NoThread == [op |-> "none", be |-> "none", at |-> 0, block |-> 0, len |-> 0,
             result |-> 0, raced |-> FALSE, reports |-> {}]

\* The steps of a call on shared state, in program order.
\*   atomic_u : the atomic update of the block counter
\*   atomic_z : the atomic update of the byte counter
\*   lock, critical, unlock : mem_lock_thread, the statements under the
\*                            mutex, mem_unlock_thread
\*   sysfree  : free / aligned_free of the storage
\*   mark     : the stores of MEMFREE to the three tags of a shared block
Program(op, be) ==
  IF be = GUARDED
  THEN IF op \in AllocCalls THEN <<"atomic_u", "atomic_z", "lock", "critical", "unlock">>
       ELSE IF op = "mem_free" THEN <<"lock", "critical", "unlock", "atomic_u", "atomic_z">>
       ELSE IF op = FREE_SHARED
       THEN <<"mark", "lock", "critical", "unlock", "atomic_u", "atomic_z">>
       ELSE <<"lock", "critical", "unlock">>
  ELSE IF op \in AllocCalls THEN <<"atomic_u", "atomic_z">>
       ELSE IF op = "mem_free" THEN <<"atomic_u", "atomic_z", "sysfree">>
       ELSE <<"critical">>

ThreadsIdle == \A t \in Threads : thr[t].at = 0
AtStep(t, step) == thr[t].at # 0 /\ Program(thr[t].op, thr[t].be)[thr[t].at] = step

\* Thread t enters a call; every thread inside a call at that moment, and t
\* itself if there is one, has raced.
Enter(t, op, be, block, len) ==
  thr' = [u \in Threads |->
            IF u = t
            THEN [op |-> op, be |-> be, at |-> 1, block |-> block, len |-> len,
                  result |-> 0, raced |-> \E v \in Threads \ {t} : thr[v].at # 0,
                  reports |-> {}]
            ELSE IF thr[u].at # 0 THEN [thr[u] EXCEPT !.raced = TRUE] ELSE thr[u]]

\* Thread t has done the step it was at; after the last one the call returns
\* and an allocated block becomes the caller's.
Advance(t, result) ==
  LET returns == thr[t].at = Len(Program(thr[t].op, thr[t].be))
      b == thr[t].block
  IN /\ thr' = [thr EXCEPT ![t].at = IF returns THEN 0 ELSE thr[t].at + 1,
                            ![t].result = result]
     /\ live' = IF returns /\ thr[t].op \in AllocCalls THEN live \cup {b}
                ELSE IF returns /\ thr[t].op = FREE_SHARED THEN live \ {b}
                ELSE live

\* What a thread step never touches.
ThreadFrame ==
  UNCHANGED <<dispatch, leak_detector_has_run, fail_on_memleak, printer_constructed,
              data_vec, phase, leak_report, last, statics, teardown, mapvars, vecvars,
              purevars, cbvars>>

\* mem_calloc(len, str) / mem_malloc_aligned(len, ThreadAlignment, str) up to
\* its first step on shared state: the storage is obtained and the header of
\* the new block is written.
ThreadAlloc(t, op, len0, str) ==
  /\ phase = "running"
  /\ thr[t].at = 0
  /\ NextSlot # 0
  /\ LET be == dispatch[op]
         r == IF be = GUARDED
              THEN IF op = "mem_calloc" THEN mem_guarded_calloc(GState, NextSlot, len0, str)
                   ELSE mem_guarded_malloc_aligned(GState, NextSlot, len0, ThreadAlignment,
                                                   str, ALLOC_FREE)
              ELSE IF op = "mem_calloc" THEN mem_lockfree_calloc(LState, NextSlot, len0, str)
                   ELSE mem_lockfree_malloc_aligned(LState, NextSlot, len0, ThreadAlignment,
                                                    str, ALLOC_FREE)
         b == r.block
         \* the header as written before the block is linked
         hdr == IF be = GUARDED THEN [r.g.mem[b] EXCEPT !.prev = NULL] ELSE r.l.mem[b]
     IN /\ mem' = [mem EXCEPT ![b] = hdr]
        /\ req' = [req EXCEPT ![b] = [len |-> len0, kind |-> ALLOC_FREE]]
        /\ Enter(t, op, be, b, SIZET_ALIGN_4(len0))
  /\ ThreadFrame
  /\ UNCHANGED <<mem_base, tot_block, mem_in_use, lf_block_num, lf_mem_in_use, live,
                 thread_lock>>

\* mem_free(ptr) of a block the caller owns, up to its first step on shared
\* state: the header is checked and, in guarded mode, marked free.
ThreadFree(t, b) ==
  /\ Running
  /\ thr[t].at = 0
  /\ b \in live
  /\ LET be == dispatch["mem_free"]
         hdr == IF be = GUARDED
                THEN mem_guarded_free(GState, mem[b].ptr, b, ALLOC_FREE,
                                      leak_detector_has_run).g.mem[b]
                ELSE mem[b]
         len == IF be = GUARDED THEN mem[b].len ELSE MEMHEAD_LEN(mem[b])
     IN /\ mem[b].owner = be
        /\ mem' = [mem EXCEPT ![b] = hdr]
        /\ Enter(t, "mem_free", be, b, len)
  /\ live' = live \ {b}
  /\ ThreadFrame
  /\ UNCHANGED <<mem_base, tot_block, mem_in_use, lf_block_num, lf_mem_in_use, req,
                 thread_lock>>

\* mem_free(ptr) in guarded mode of a block another thread may be freeing,
\* up to its first store: tag1, tag2 and tag3 are read.  A block whose tags
\* read MEMFREE is reported as a double free and the call returns; otherwise
\* the tags are the allocator's and the call goes on to mark the block.  The
\* block stays the program's until a call that removed it returns.
ThreadFreeShared(t, b) ==
  /\ Running
  /\ thr[t].at = 0
  /\ b \in live
  /\ dispatch["mem_free"] = GUARDED /\ mem[b].owner = GUARDED
  /\ IF guarded_double_free(mem[b])
     THEN thr' = [u \in Threads |->
                    IF u = t
                    THEN [NoThread EXCEPT !.op = FREE_SHARED, !.be = GUARDED, !.block = b,
                                          !.len = mem[b].len,
                                          !.raced = \E v \in Threads \ {t} : thr[v].at # 0,
                                          !.reports = {ERR_DOUBLE_FREE}]
                    ELSE IF thr[u].at # 0 THEN [thr[u] EXCEPT !.raced = TRUE] ELSE thr[u]]
     ELSE /\ ~BadHeader(mem, b) /\ mem[b].tag3 = MEMTAG3
          /\ Enter(t, FREE_SHARED, GUARDED, b, mem[b].len)
  /\ ThreadFrame
  /\ UNCHANGED <<mem, mem_base, tot_block, mem_in_use, lf_block_num, lf_mem_in_use, live,
                 req, thread_lock>>

\* memh->tag1 = MEMFREE; memh->tag2 = MEMFREE; memt->tag3 = MEMFREE;
ThreadMark(t) ==
  /\ AtStep(t, "mark")
  /\ mem' = [mem EXCEPT ![thr[t].block].tag1 = MEMFREE, ![thr[t].block].tag2 = MEMFREE,
                        ![thr[t].block].tag3 = MEMFREE]
  /\ Advance(t, 0)
  /\ ThreadFrame
  /\ UNCHANGED <<mem_base, tot_block, mem_in_use, lf_block_num, lf_mem_in_use, req,
                 thread_lock>>

\* mem_get_memory_blocks_in_use()
ThreadGet(t) ==
  /\ Running
  /\ thr[t].at = 0
  /\ Enter(t, "mem_get_memory_blocks_in_use", dispatch["mem_get_memory_blocks_in_use"],
           0, 0)
  /\ ThreadFrame
  /\ UNCHANGED <<mem, mem_base, tot_block, mem_in_use, lf_block_num, lf_mem_in_use, live,
                 req, thread_lock>>

\* One atomic read-modify-write of one counter.
ThreadAtomic(t) ==
  LET add == thr[t].op \in AllocCalls
      len == thr[t].len
  IN /\ AtStep(t, "atomic_u") \/ AtStep(t, "atomic_z")
     /\ IF thr[t].be = GUARDED
        THEN /\ tot_block' = IF AtStep(t, "atomic_u")
                              THEN (IF add THEN tot_block + 1 ELSE tot_block - 1)
                              ELSE tot_block
             /\ mem_in_use' = IF AtStep(t, "atomic_z")
                               THEN (IF add THEN mem_in_use + len ELSE mem_in_use - len)
                               ELSE mem_in_use
             /\ UNCHANGED <<lf_block_num, lf_mem_in_use>>
        ELSE LET l == IF add THEN memory_usage_block_alloc(LState, len)
                      ELSE memory_usage_block_free(LState, len)
             IN /\ lf_block_num' = IF AtStep(t, "atomic_u") THEN l.block_num
                                    ELSE lf_block_num
                /\ lf_mem_in_use' = IF AtStep(t, "atomic_z") THEN l.mem_in_use
                                     ELSE lf_mem_in_use
                /\ UNCHANGED <<tot_block, mem_in_use>>
     /\ Advance(t, 0)
     /\ ThreadFrame
     /\ UNCHANGED <<mem, mem_base, req, thread_lock>>

\* mem_lock_thread(): blocks until the mutex is free.
ThreadLock(t) ==
  /\ AtStep(t, "lock")
  /\ thread_lock = 0
  /\ thread_lock' = t
  /\ Advance(t, 0)
  /\ ThreadFrame
  /\ UNCHANGED <<mem, mem_base, tot_block, mem_in_use, lf_block_num, lf_mem_in_use, req>>

\* The statements between lock and unlock: add_tail in make_memhead_header,
\* remove_link and the next_name repair in remove_memblock, the read of the
\* counter in the query.  The lockfree query reads its counter in one step
\* without a mutex.
ThreadCritical(t) ==
  /\ AtStep(t, "critical")
  /\ thr[t].be = GUARDED => thread_lock = t
  /\ LET b == thr[t].block
         g == IF thr[t].op \in AllocCalls THEN add_tail(GState, b)
              ELSE IF thr[t].op \in FreeCalls THEN remove_memblock(GState, b)
              ELSE GState
     IN /\ mem' = g.mem
        /\ mem_base' = g.mem_base
  /\ Advance(t, IF thr[t].be = GUARDED THEN tot_block ELSE lf_block_num)
  /\ ThreadFrame
  /\ UNCHANGED <<tot_block, mem_in_use, lf_block_num, lf_mem_in_use, req, thread_lock>>

\* mem_unlock_thread()
ThreadUnlock(t) ==
  /\ AtStep(t, "unlock")
  /\ thread_lock = t
  /\ thread_lock' = 0
  /\ Advance(t, thr[t].result)
  /\ ThreadFrame
  /\ UNCHANGED <<mem, mem_base, tot_block, mem_in_use, lf_block_num, lf_mem_in_use, req>>

\* The lockfree backend hands the storage back to the system allocator.
ThreadSysFree(t) ==
  /\ AtStep(t, "sysfree")
  /\ LET b == thr[t].block
     IN mem' = mem_lockfree_free(LState, mem[b].ptr, b, ALLOC_FREE,
                                 leak_detector_has_run).l.mem
  /\ Advance(t, 0)
  /\ ThreadFrame
  /\ UNCHANGED <<mem_base, tot_block, mem_in_use, lf_block_num, lf_mem_in_use, req,
                 thread_lock>>

Threads_Init ==
  /\ thr = [t \in Threads |-> NoThread]
  /\ thread_lock = 0

\* ---- functions of their arguments ---------------------------------------
\* op: the function called; args: its arguments; kind, out: how the call
\* ended and what it returned; slots: the slot array it left behind.
NoPure == [op |-> "none", args |-> <<>>, kind |-> "none", out |-> <<>>, slots |-> <<>>]

Pure_Init == pure = NoPure

\* What a call of such a function leaves alone.
PureFrame == UNCHANGED <<memvars, mapvars, vecvars, thrvars, cbvars>>

\* add_impl(key, hash, value) on a map of n slots, n a power of two, of which
\* the slots in occ hold another key and at least one is Empty, with
\* usable_slots_ above the number of occupied slots, so that ensure_can_add
\* does not grow the map.  The hash is a parameter of add_impl; hash functors
\* can give a key any value.
ProbeHashes == 0..MaxHash
TableSizes == {1, 2, 4, 8}
NEW_KEY == <<97>>
OTHER_KEY == <<66, 64>>

TableOf(n, occ) ==
  [slots |-> [i \in 1..n |->
                IF (i - 1) \in occ
                THEN [state |-> OCCUPIED, key |-> OTHER_KEY, value |-> 1,
                      key_live |-> TRUE, value_live |-> TRUE]
                ELSE EmptySlot],
   removed |-> 0, occ |-> Cardinality(occ), usable |-> n, mask |-> n - 1]

AddImplCall(hash, n, occ) ==
  /\ pure = NoPure
  /\ Cardinality(occ) < n
  /\ LET r == add_impl(TableOf(n, occ), NEW_KEY, hash, 1, n, n, TRUE, "none")
     IN pure' = [op |-> "add_impl", args |-> [hash |-> hash, n |-> n, occ |-> occ],
                 kind |-> r.call.result, out |-> <<r.call.idx>>, slots |-> r.h.slots]
  /\ PureFrame

\* ---- specification ------------------------------------------------------
Init ==
  /\ dispatch = [e \in Entries |-> LOCKFREE]
  /\ mem = [b \in Blocks |-> NoBlock]
  /\ mem_base = [first |-> NULL, last |-> NULL]
  /\ tot_block = 0
  /\ mem_in_use = 0
  /\ lf_block_num = 0
  /\ lf_mem_in_use = 0
  /\ leak_detector_has_run = FALSE
  /\ fail_on_memleak = FALSE
  /\ printer_constructed = FALSE
  /\ data_vec = 0
  /\ phase = "running"
  /\ leak_report = NoReport
  /\ last = NoCall
  /\ live = {}
  /\ req = [b \in Blocks |-> [len |-> 0, kind |-> "none"]]
  /\ statics = <<>>
  /\ teardown = <<>>
  /\ HashMap_Init
  /\ Containers_Init
  /\ Threads_Init
  /\ Pure_Init
  /\ Callback_Init

Next ==
  \/ \E len \in AlignedLens, a \in Alignments, str \in Tags, k \in AllocationType,
        ok \in BOOLEAN :
       MemMallocAligned(len, a, str, k, ok)
  \/ \E len \in CallocLens, str \in Tags, ok \in BOOLEAN : MemCalloc(len, str, ok)
  \/ \E p \in FreeArgs : MemFree(p)
  \/ \E p \in FreeArgs : MemDelete(p)
  \/ UseGuardedAllocator
  \/ InitMemleakDetection
  \/ EnableFailOnMemleak
  \/ ProcessExit

Spec == Init /\ [][Next]_vars

\* Second specification: mem_new / mem_delete with requests the system
\* allocator serves, over every power of two up to twice the limit, zero and
\* a value that is no power of two, in both backends.
Pow2(n) == {2^i : i \in 0..n}
AlignInputs == {0, 3} \cup Pow2(11)

NextAlign ==
  \/ \E len \in AlignedLens, a \in AlignInputs, str \in Tags :
       MemMallocAligned(len, a, str, NEW_DELETE, TRUE)
  \/ \E p \in FreeArgs \ {NULL} : MemDelete(p)
  \/ UseGuardedAllocator

SpecAlign == Init /\ [][NextAlign]_vars

\* Third specification: the leak detector and the keep-alive registration,
\* with allocations the system allocator serves and frees of live pointers.
NextTeardown ==
  \/ \E len \in CallocLens, str \in Tags : MemCalloc(len, str, TRUE)
  \/ \E p \in FreeArgs \ {NULL} : MemFree(p)
  \/ UseGuardedAllocator
  \/ InitMemleakDetection
  \/ AddMemleakData
  \/ EnableFailOnMemleak
  \/ ProcessExit

SpecTeardown == Init /\ [][NextTeardown]_vars

\* Fourth specification: add calls on a default-constructed hash map.
NextMap ==
  \E key \in Keys, value \in Values, total_slots \in UninitTotalSlots,
     usable_slots \in UninitUsableSlots, move_returns \in BOOLEAN, throws \in Throws :
    HashMapAdd(key, value, total_slots, usable_slots, move_returns, throws)

SpecMap == Init /\ [][NextMap]_vars

\* Fifth specification: a Vector and a CallbackHandler.
NextVec ==
  \/ \E value \in VecValues, oob \in OutOfBounds : VectorAppend(value, oob)
  \/ \E value \in VecValues : VectorPrepend(value)
  \/ VectorDestruct
  \/ \E cb \in VecValues, insert \in {CB_ADD_FRONT, CB_ADD_END}, oob \in OutOfBounds :
       AddCallback(cb, insert, oob)

SpecVec == Init /\ [][NextVec]_vars

\* Seventh specification: an Array and a Vector in a process that may have
\* switched to the guarded allocator.
NextArray ==
  \/ \E n \in 0..MaxArraySize, sys_ok \in BOOLEAN : ArrayConstruct(n, sys_ok)
  \/ ArrayDestruct
  \/ \E value \in VecValues, oob \in OutOfBounds : VectorAppend(value, oob)
  \/ VectorDestruct
  \/ UseGuardedAllocator

SpecArray == Init /\ [][NextArray]_vars

\* Sixth specification: add calls on a default-constructed VectorMap.
NextVecMap ==
  \/ \E key \in Keys, value \in VecValues, total_slots \in UninitTotalSlots,
        usable_slots \in UninitUsableSlots, move_returns \in BOOLEAN, oob \in OutOfBounds :
       VectorMapAdd(key, value, total_slots, usable_slots, move_returns, oob)
  \/ VectorMapDestruct

SpecVecMap == Init /\ [][NextVecMap]_vars

\* Eighth specification: the guarded backend with user code that overwrites
\* boundary tags; every block is passed to mem_free at most once.
NextCorrupt ==
  \/ \E len \in CallocLens, str \in Tags : MemCalloc(len, str, TRUE)
  \/ \E b \in live : MemFree(mem[b].ptr)
  \/ \E b \in Blocks, tag \in BoundaryTags : OverwriteTag(b, tag)
  \/ UseGuardedAllocator

SpecCorrupt == Init /\ [][NextCorrupt]_vars

\* Ninth specification: threads that allocate, free and query concurrently,
\* in a process whose main thread may have switched to the guarded allocator
\* before it started them.
NextThreads ==
  \/ \E t \in Threads, str \in Tags :
       \/ \E len \in CallocLens : ThreadAlloc(t, "mem_calloc", len, str)
       \/ \E len \in AlignedLens : ThreadAlloc(t, "mem_malloc_aligned", len, str)
  \/ \E t \in Threads, b \in Blocks : ThreadFree(t, b)
  \/ \E t \in Threads : ThreadGet(t)
  \/ \E t \in Threads : ThreadAtomic(t)
  \/ \E t \in Threads : ThreadLock(t)
  \/ \E t \in Threads : ThreadCritical(t)
  \/ \E t \in Threads : ThreadUnlock(t)
  \/ \E t \in Threads : ThreadSysFree(t)
  \/ ThreadsIdle /\ live = {} /\ UseGuardedAllocator

SpecThreads == Init /\ [][NextThreads]_vars

\* Tenth specification: threads allocate, and free in guarded mode blocks
\* that another thread may be freeing too.  A free call starts only while the
\* counters are large enough not to wrap when every thread decrements them.
NextRace ==
  \/ \E t \in Threads, str \in Tags, len \in CallocLens :
       ThreadAlloc(t, "mem_calloc", len, str)
  \/ \E t \in Threads, b \in Blocks :
       /\ tot_block >= MaxThreads /\ mem_in_use >= MaxThreads * mem[b].len
       /\ ThreadFreeShared(t, b)
  \/ \E t \in Threads : ThreadMark(t)
  \/ \E t \in Threads : ThreadAtomic(t)
  \/ \E t \in Threads : ThreadLock(t)
  \/ \E t \in Threads : ThreadCritical(t)
  \/ \E t \in Threads : ThreadUnlock(t)
  \/ ThreadsIdle /\ live = {} /\ UseGuardedAllocator

SpecRace == Init /\ [][NextRace]_vars

\* Eleventh specification: registrations of an error callback, the switch to
\* the guarded backend, and calls that print diagnostics.
NextCallback ==
  \/ \E func \in ErrorCallbacks : MemSetErrorCallback(func)
  \/ UseGuardedAllocator
  \/ \E len \in CallocLens, str \in Tags, ok \in BOOLEAN : MemCalloc(len, str, ok)
  \/ \E p \in FreeArgs : MemFree(p)

SpecCallback == Init /\ [][NextCallback]_vars

\* Tenth specification: one call of a function of its arguments, over every
\* argument of the bounded sets.
\* ---- machine integers -----------------------------------------------------
\* int64_t, uint64_t and size_t are WordBits wide here.  A conversion to the
\* unsigned type is modulo 2^WordBits, a conversion to the signed type takes
\* the two's complement value.
WordModulus == 2 ^ WordBits
INT64_MAX == 2 ^ (WordBits - 1) - 1
INT64_MIN == -(2 ^ (WordBits - 1))
SIZE_MAX == WordModulus - 1

uint64_t(x) == x % WordModulus
int64_t(u) == IF uint64_t(u) > INT64_MAX THEN uint64_t(u) - WordModulus ELSE uint64_t(u)

\* is_power_of_2(x): (x & (x - 1)) == 0.  x - 1 overflows for the least
\* int64_t, which leaves the result open (ub).
is_power_of_2(x, ub) ==
  IF x = INT64_MIN THEN ub ELSE BitAnd(uint64_t(x), uint64_t(x - 1)) = 0

RECURSIVE log2_floor(_)
log2_floor(x) == IF x <= 1 THEN 0 ELSE 1 + log2_floor(x \div 2)

log2_ceil(x, ub) == IF is_power_of_2(x, ub) THEN log2_floor(x) ELSE log2_floor(x) + 1

\* 1ll << log2_ceil(x)
power_of_2_max(x, ub) == int64_t(2 ^ log2_ceil(x, ub))

ceil_division_mut(x, y) == x \div y

\* ceil_division<uint64_t>(x, y)
ceil_division(x, y) == uint64_t(x \div y + (IF x % y # 0 THEN 1 ELSE 0))

ceil_division_by_fraction(x, numerator, denominator) ==
  int64_t(ceil_division(uint64_t(uint64_t(x) * uint64_t(denominator)),
                        uint64_t(numerator)))

total_slot_amount_for_usable_slots(min_usable_slots, numerator, denominator, ub) ==
  power_of_2_max(ceil_division_by_fraction(min_usable_slots, numerator, denominator), ub)

\* A call of total_slot_amount_for_usable_slots with a load factor
\* numerator / denominator, 0 < numerator < denominator.
TotalSlotsCall(min_usable_slots, numerator, denominator, ub) ==
  /\ pure = NoPure
  /\ ub => ceil_division_by_fraction(min_usable_slots, numerator, denominator) = INT64_MIN
  /\ pure' = [op |-> "total_slot_amount_for_usable_slots",
              args |-> [min_usable_slots |-> min_usable_slots, numerator |-> numerator,
                        denominator |-> denominator],
              kind |-> "none",
              out |-> <<total_slot_amount_for_usable_slots(min_usable_slots, numerator,
                                                           denominator, ub)>>,
              slots |-> <<>>]
  /\ PureFrame

\* mem_size_safe_multiply(a, b, &result): the value stored in *result and
\* the value returned.  high_bits is SIZE_MAX << (sizeof(size_t) * 8 / 2).
mem_size_safe_multiply_mut(a, b) ==
  LET high_bits == (SIZE_MAX * 2 ^ (WordBits \div 2)) % WordModulus
      result == (a * b) % WordModulus
  IN [result |-> result,
      ok |-> IF result = 0 THEN a = 0 \/ b = 0
             ELSE BitAnd(high_bits, a + b - BitAnd(a, b)) = 0 \/ result \div b <= a]

mem_size_safe_multiply(a, b) ==
  LET high_bits == (SIZE_MAX * 2 ^ (WordBits \div 2)) % WordModulus
      result == (a * b) % WordModulus
  IN [result |-> result,
      ok |-> IF result = 0 THEN a = 0 \/ b = 0
             ELSE BitAnd(high_bits, a + b - BitAnd(a, b)) = 0 \/ result \div b = a]

\* A call of mem_size_safe_multiply.
SizeSafeMultiplyCall(a, b) ==
  /\ pure = NoPure
  /\ LET m == mem_size_safe_multiply(a, b)
     IN pure' = [op |-> "mem_size_safe_multiply", args |-> [a |-> a, b |-> b],
                 kind |-> IF m.ok THEN "true" ELSE "false", out |-> <<m.result>>,
                 slots |-> <<>>]
  /\ PureFrame

\* mem_guarded_malloc(len, str): malloc of the rounded length with the
\* header and the tail, the header written by make_memhead_header.
mem_guarded_malloc(g, slot, len0, str) ==
  LET len == SIZET_ALIGN_4(len0)
  IN IF slot # 0
     THEN LET base == BaseAddr(slot, MALLOC_ALIGNMENT)
              g0 == [g EXCEPT !.mem[slot] = [NoBlock EXCEPT !.sys = "allocated",
                                                            !.base = base,
                                                            !.ptr = base + SIZEOF_GUARDED_MEMHEAD]]
          IN [g |-> make_memhead_header(g0, slot, len, str, ALLOC_FREE),
              block |-> slot, result |-> base + SIZEOF_GUARDED_MEMHEAD,
              reports |-> {}, asserted |-> FALSE]
     ELSE [g |-> g, block |-> 0, result |-> NULL, reports |-> {ERR_ALLOC_NULL},
           asserted |-> FALSE]

\* mem_guarded_malloc_array(len, size, str): when the product does not fit
\* size_t the error is printed and abort() ends the process; otherwise
\* mem_guarded_malloc is called with the product.
MemGuardedMallocArray(len, size_, str, sys_ok) ==
  /\ pure = NoPure
  /\ phase = "running"
  /\ sys_ok => NextSlot # 0
  /\ LET m == mem_size_safe_multiply(len, size_)
     IN /\ pure' = [op |-> "mem_guarded_malloc_array", args |-> [a |-> len, b |-> size_],
                    kind |-> IF m.ok THEN "true" ELSE "false", out |-> <<m.result>>,
                    slots |-> <<>>]
        /\ IF ~m.ok
           THEN /\ last' = [NoCall EXCEPT !.op = "mem_guarded_malloc_array",
                                          !.reports = {ERR_OVERFLOW}]
                /\ phase' = "aborted"
                /\ UNCHANGED <<dispatch, mem, mem_base, tot_block, mem_in_use, lf_block_num,
                               lf_mem_in_use, leak_detector_has_run, fail_on_memleak,
                               printer_constructed, data_vec, leak_report, live, req,
                               statics, teardown>>
           ELSE LET r == mem_guarded_malloc(GState, IF sys_ok THEN NextSlot ELSE 0,
                                            m.result, str)
                IN /\ SetGuarded(r.g)
                   /\ AllocReturn(r, "mem_guarded_malloc_array", m.result, 0, ALLOC_FREE)
  /\ UNCHANGED <<mapvars, vecvars, thrvars, cbvars>>

NextPure ==
  \/ pure = NoPure /\ \E hash \in ProbeHashes, n \in TableSizes :
                        \E occ \in SUBSET (0..(n - 1)) : AddImplCall(hash, n, occ)
  \/ pure = NoPure /\ \E min_usable_slots \in 0..INT64_MAX, denominator \in 2..MaxDenominator :
                        \E numerator \in 1..(denominator - 1), ub \in BOOLEAN :
                          TotalSlotsCall(min_usable_slots, numerator, denominator, ub)
  \/ pure = NoPure /\ \E a, b \in 0..SIZE_MAX : SizeSafeMultiplyCall(a, b)
  \/ pure = NoPure /\ \E len, size_ \in 0..SIZE_MAX, str \in Tags, sys_ok \in BOOLEAN :
                        MemGuardedMallocArray(len, size_, str, sys_ok)

SpecPure == Init /\ [][NextPure]_vars

\* ---- properties ---------------------------------------------------------
Round4(n) == ((n + 3) \div 4) * 4
LiveBytes == SumOver(live, [b \in Blocks |-> Round4(req[b].len)])
AllBound(be) == \A e \in Entries : dispatch[e] = be
FreeOps == {"mem_free", "mem_delete"}

\* The step is a free call on the payload pointer of block b.
FreeStepOn(b) == last'.op \in FreeOps /\ last'.block = b /\ last'.ptr = mem[b].ptr /\ b # 0

\* C1: the live-block counter of the bound backend equals the number of
\* blocks allocated and not freed (allocations minus frees), and its byte
\* counter equals the sum of their requested lengths rounded up to 4.
C1_Accounting ==
  /\ mem_get_memory_blocks_in_use = Cardinality(live)
  /\ mem_get_memory_in_use = LiveBytes

\* C1 witness: in guarded mode a block was freed while another one is live.
C1_Witness ==
  /\ AllBound(GUARDED)
  /\ last.op = "mem_free" /\ last.block # 0 /\ last.reports = {}
  /\ live # {}

\* C2: in guarded mode a free of a pointer that was freed before is reported
\* as a double free and changes neither counter, nor the list, nor any header.
C2_DoubleFree ==
  [][\A b \in Blocks :
       (dispatch["mem_free"] = GUARDED /\ FreeStepOn(b) /\ b \notin live)
         => /\ ERR_DOUBLE_FREE \in last'.reports
            /\ UNCHANGED <<tot_block, mem_in_use, mem_base, mem>>]_vars

\* C2 witness: a double free has been reported by the guarded backend.
C2_Witness ==
  /\ AllBound(GUARDED)
  /\ last.op = "mem_free" /\ ERR_DOUBLE_FREE \in last.reports

\* The free call of this step passes a kind other than the one block b was
\* allocated with.
KindMismatch(b) == FreeStepOn(b) /\ b \in live /\ last'.kind # req[b].kind

FreedByStep(b) ==
  /\ mem'[b].tag1 = MEMFREE /\ mem'[b].tag2 = MEMFREE /\ mem'[b].tag3 = MEMFREE
  /\ \A c \in live' : mem'[c].next # b /\ mem'[c].prev # b
  /\ mem_base'.first # b /\ mem_base'.last # b
  /\ tot_block' = tot_block - 1
  /\ mem_in_use' = mem_in_use - Round4(req[b].len)

\* Block b is left as it was: not marked freed, links, list and counters unchanged.
RefusedByStep(b) ==
  /\ mem'[b].tag1 # MEMFREE
  /\ UNCHANGED <<mem, mem_base, tot_block, mem_in_use>>

\* C4 as stated: in guarded mode a free with a mismatching kind is reported
\* and refused.
C4_Original ==
  [][\A b \in Blocks :
       (dispatch["mem_free"] = GUARDED /\ KindMismatch(b))
         => (last'.reports # {} /\ RefusedByStep(b))]_vars

\* C4 amended: in guarded mode a free with a mismatching kind is not refused:
\* the block is freed like any other (tags set to the freed marker, unlinked,
\* both counters decremented); it is reported only when the raw free is used
\* on a typed block.
C4_MismatchFrees ==
  [][\A b \in Blocks :
       (dispatch["mem_free"] = GUARDED /\ KindMismatch(b))
         => /\ FreedByStep(b)
            /\ (ERR_C_FREE_ON_NEW \in last'.reports <=> last'.kind = ALLOC_FREE)]_vars

\* C4 witness: guarded mode, raw free of a typed block, reported, block freed.
C4_Witness ==
  /\ AllBound(GUARDED)
  /\ last.op = "mem_free" /\ last.block # 0
  /\ req[last.block].kind = NEW_DELETE
  /\ ERR_C_FREE_ON_NEW \in last.reports
  /\ mem[last.block].tag1 = MEMFREE

\* C5 as stated: in guarded mode a free of a live block after the leak
\* detector has run is reported and refused.
C5_Original ==
  [][\A b \in Blocks :
       (dispatch["mem_free"] = GUARDED /\ FreeStepOn(b) /\ b \in live
          /\ leak_detector_has_run)
         => (ERR_AFTER_LEAK \in last'.reports /\ RefusedByStep(b))]_vars

\* C5 amended: in guarded mode a free of a live block after the leak detector
\* has run is reported but not refused: the block is marked freed, unlinked
\* and both counters are decremented.
C5_AfterLeakFrees ==
  [][\A b \in Blocks :
       (dispatch["mem_free"] = GUARDED /\ FreeStepOn(b) /\ b \in live
          /\ leak_detector_has_run)
         => (ERR_AFTER_LEAK \in last'.reports /\ FreedByStep(b))]_vars

\* C5 witness: guarded mode, a leaked block was freed after the detector ran.
C5_Witness ==
  /\ AllBound(GUARDED)
  /\ leak_detector_has_run /\ leak_report.printed
  /\ last.op \in FreeOps /\ last.block # 0
  /\ ERR_AFTER_LEAK \in last.reports
  /\ mem[last.block].tag1 = MEMFREE

\* C6: in both backends a free of a live block hands the block's storage
\* back to the system allocator exactly once, on its real base address, and
\* decrements the block counter by 1 and the byte counter by its length.
C6_Original ==
  [][\A b \in Blocks :
       (FreeStepOn(b) /\ b \in live)
         => /\ Len(last'.sysfree) = 1
            /\ last'.sysfree[1].addr = mem[b].base
            /\ mem_get_memory_blocks_in_use' = mem_get_memory_blocks_in_use - 1
            /\ mem_get_memory_in_use' = mem_get_memory_in_use - Round4(req[b].len)]_vars

Max(a, b) == IF a >= b THEN a ELSE b

\* The last call was mem_malloc_aligned with alignment a and the system
\* allocator had storage for it.
AlignedAllocOf(a) ==
  /\ last.op = "mem_malloc_aligned" /\ last.alignment = a
  /\ ERR_ALLOC_NULL \notin last.reports

AcceptedAndAligned(a) ==
  /\ ~last.asserted
  /\ last.result # NULL
  /\ last.result = mem[last.block].ptr
  /\ last.result % Max(a, ALIGNED_ALLOC_MINIMUM_ALIGNMENT) = 0

\* C7 as stated: every power of two up to and including 1024 is accepted and
\* the payload address is a multiple of max(alignment, minimum alignment).
C7_Original == \A a \in Pow2(10) : AlignedAllocOf(a) => AcceptedAndAligned(a)

\* C7 amended: every power of two below 1024 (at most 512) is accepted by
\* both backends and the payload address is a multiple of max(alignment,
\* minimum alignment); 1024 fails the assertion alignment < 1024.
C7_Alignment ==
  /\ \A a \in Pow2(9) : AlignedAllocOf(a) => AcceptedAndAligned(a)
  /\ AlignedAllocOf(ALIGNMENT_LIMIT) => (last.asserted /\ phase = "aborted")

\* C7 witness: the guarded backend returned a block for alignment 512.
C7_Witness ==
  /\ AllBound(GUARDED)
  /\ AlignedAllocOf(512) /\ AcceptedAndAligned(512)
  /\ mem[last.block].alignment = 512

\* C8: mem_use_guarded_allocator fails its assertion whenever the live-block
\* counter is non-zero and then rebinds nothing, so every live block was
\* allocated by the backend that every dispatch entry is bound to.
C8_NoCrossBackend ==
  /\ [](\A b \in live : AllBound(mem[b].owner))
  /\ [][(last'.op = "mem_use_guarded_allocator" /\ mem_get_memory_blocks_in_use # 0)
          => (last'.asserted /\ phase' = "aborted" /\ dispatch' = dispatch)]_vars

\* C8 witness: the switch was attempted with a live block and the assertion failed.
C8_Witness ==
  /\ last.op = "mem_use_guarded_allocator" /\ last.asserted
  /\ live # {}
  /\ AllBound(LOCKFREE)

C10_LeakReport ==
  [][(last'.op = "exit" /\ printer_constructed)
       => /\ leak_detector_has_run'
          /\ leak_report'.printed <=> mem_get_memory_blocks_in_use # 0
          /\ leak_report'.printed <=> live # {}
          /\ leak_report'.printed
               => /\ leak_report'.blocks = Cardinality(live)
                  /\ leak_report'.bytes = LiveBytes
          /\ phase' = "aborted" <=> (leak_report'.printed /\ fail_on_memleak)]_vars

\* C10 witness: two blocks leaked, the report was printed and the process aborted.
C10_Witness ==
  /\ last.op = "exit"
  /\ leak_report.printed /\ leak_report.blocks = 2
  /\ leak_report.bytes = LiveBytes
  /\ fail_on_memleak /\ phase = "aborted"

\* The allocator state the leak detector could touch besides the list base.
AllocatorState == <<dispatch, mem, tot_block, mem_in_use, lf_block_num, lf_mem_in_use>>
EmptyList == [first |-> NULL, last |-> NULL]

\* What a free call of the bound backend would do in this state if the leak
\* detector had (has_run = TRUE) or had not (FALSE) run.
FreeOutcome(p, allocation_type, has_run) ==
  IF dispatch["mem_free"] = GUARDED
  THEN LET r == mem_guarded_free(GState, p, BlockOfPtr(p), allocation_type, has_run)
       IN [state |-> r.g, reports |-> r.reports, sysfree |-> <<>>]
  ELSE LET r == mem_lockfree_free(LState, p, BlockOfPtr(p), allocation_type, has_run)
       IN [state |-> r.l, reports |-> r.reports, sysfree |-> r.sysfree]

\* What mem_calloc of the bound backend would do in this state with the
\* guarded list base `base`: the pointer returned and the counters after it.
CallocOutcome(len, base) ==
  IF dispatch["mem_calloc"] = GUARDED
  THEN LET r == mem_guarded_calloc([GState EXCEPT !.mem_base = base], NextSlot, len, "tag")
       IN [result |-> r.result, blocks |-> r.g.tot_block, bytes |-> r.g.mem_in_use,
           reports |-> r.reports]
  ELSE LET r == mem_lockfree_calloc(LState, NextSlot, len, "tag")
       IN [result |-> r.result, blocks |-> r.l.block_num, bytes |-> r.l.mem_in_use,
           reports |-> r.reports]

\* C11 as stated: initialising and running the leak detector changes neither
\* counter, nor any header, nor the guarded block list, and a later free does
\* exactly what it would have done had the detector not run.
C11_Original ==
  /\ [][last'.op \in {"mem_init_memleak_detection", "exit"}
          => UNCHANGED <<AllocatorState, mem_base>>]_vars
  /\ [](leak_detector_has_run
          => \A p \in FreeArgs, k \in AllocationType :
               FreeOutcome(p, k, TRUE) = FreeOutcome(p, k, FALSE))

\* C11 amended: initialising the leak detector changes no allocator state;
\* running it changes neither counter, no header and no dispatch entry, but
\* in guarded mode with leaked blocks it empties the base of the block list
\* (and only then); a later free changes the counters, the headers and the
\* list as it would have done had the detector not run and calls the system
\* allocator the same way, but additionally prints the after-leak diagnostic;
\* a later mem_calloc returns the same pointer and counts the same whether
\* the list base was emptied or not.
C11_DetectorFrame ==
  /\ [][last'.op = "mem_init_memleak_detection"
          => UNCHANGED <<AllocatorState, mem_base>>]_vars
  /\ [][last'.op = "exit"
          => /\ UNCHANGED AllocatorState
             /\ mem_base' = IF printer_constructed /\ AllBound(GUARDED) /\ tot_block # 0
                            THEN EmptyList ELSE mem_base]_vars
  /\ [](\A p \in FreeArgs, k \in AllocationType :
          LET a == FreeOutcome(p, k, TRUE)
              n == FreeOutcome(p, k, FALSE)
          IN /\ a.state = n.state
             /\ a.sysfree = n.sysfree
             /\ a.reports \ {ERR_AFTER_LEAK} = n.reports)
  /\ [](\A len \in CallocLens :
          LET a == CallocOutcome(len, EmptyList)
              n == CallocOutcome(len, mem_base)
          IN a = n)

\* C11 witness: in guarded mode the detector ran with a leaked block: the
\* counter still counts it while the list base is empty.
C11_Witness ==
  /\ AllBound(GUARDED)
  /\ last.op = "exit" /\ phase = "exit"
  /\ leak_report.printed
  /\ tot_block > 0 /\ mem_base = EmptyList

Count(s, x) == Cardinality({i \in 1..Len(s) : s[i] = x})
Before(s, x, y) == \A i, j \in 1..Len(s) : (s[i] = x /\ s[j] = y) => i < j

\* C12: the data registered with add_memleak_data are destroyed (with the
\* vector that holds them) only at process teardown, at most once, and when
\* the leak detector exists only after its destructor has run.
C12_DataOutlivesDetector ==
  /\ [](Constructed(teardown, STATIC_DATA_VEC) /\ Constructed(statics, STATIC_PRINTER)
          => /\ Constructed(teardown, STATIC_PRINTER)
             /\ leak_detector_has_run
             /\ Before(teardown, STATIC_PRINTER, STATIC_DATA_VEC))
  /\ [](Count(teardown, STATIC_DATA_VEC) <= 1)
  /\ [](data_vec > 0 => Constructed(statics, STATIC_DATA_VEC))
  /\ [][teardown' # teardown => last'.op = "exit"]_vars

\* C12 witness: data were registered, the detector reported a leak and then
\* the data were destroyed.
C12_Witness ==
  /\ data_vec = MaxData
  /\ leak_report.printed
  /\ teardown = <<STATIC_PRINTER, STATIC_DATA_VEC, STATIC_MUTEX>>

\* C13 as stated: a call of mem_init_memleak_detection after the first one
\* changes nothing, and the detection logic runs exactly once at teardown.
C13_Original ==
  /\ [][(last'.op = "mem_init_memleak_detection" /\ printer_constructed)
          => UNCHANGED <<AllocatorState, mem_base, leak_detector_has_run, fail_on_memleak,
                         printer_constructed, data_vec, phase, leak_report, live, req,
                         statics, teardown>>]_vars
  /\ [](Count(teardown, STATIC_PRINTER) <= 1)
  /\ [][(last'.op = "exit" /\ printer_constructed)
          => Count(teardown', STATIC_PRINTER) = 1]_vars

\* C13 amended: a call of mem_init_memleak_detection after the first one
\* registers one more datum in data_vec and changes nothing else: no static
\* is constructed again and no allocator state changes; the detection logic
\* runs exactly once at teardown, however often the call was made.
C13_InitRepeat ==
  /\ [][(last'.op = "mem_init_memleak_detection" /\ printer_constructed)
          => /\ data_vec' = data_vec + 1
             /\ UNCHANGED <<AllocatorState, mem_base, leak_detector_has_run,
                            fail_on_memleak, printer_constructed, phase, leak_report,
                            live, req, statics, teardown>>]_vars
  /\ [](Count(statics, STATIC_PRINTER) <= 1 /\ Count(teardown, STATIC_PRINTER) <= 1)
  /\ [][(last'.op = "exit" /\ printer_constructed)
          => (Count(teardown', STATIC_PRINTER) = 1 /\ leak_detector_has_run')]_vars
  /\ [][leak_detector_has_run => UNCHANGED <<teardown, leak_report>>]_vars

\* C13 witness: the call was made MaxData times and the detection ran once.
C13_Witness ==
  /\ data_vec = MaxData /\ MaxData > 1
  /\ leak_detector_has_run
  /\ Count(teardown, STATIC_PRINTER) = 1

AllocOps == {"mem_malloc_aligned", "mem_calloc"}

\* C14: an allocation call of either backend that passes its assertions and
\* is served no storage by the system allocator returns null, prints the
\* allocation-failure diagnostic and leaves both counters of both backends,
\* the guarded list and every header unchanged.
C14_AllocFailure ==
  [][(last'.op \in AllocOps /\ ~last'.asserted /\ last'.block = 0)
       => /\ last'.result = NULL
          /\ ERR_ALLOC_NULL \in last'.reports
          /\ phase' = phase
          /\ UNCHANGED <<tot_block, mem_in_use, lf_block_num, lf_mem_in_use, mem_base,
                         mem, live>>]_vars

\* C14 witness: the guarded mem_calloc failed while a block was live.
C14_Witness ==
  /\ AllBound(GUARDED)
  /\ last.op = "mem_calloc" /\ last.result = NULL
  /\ ERR_ALLOC_NULL \in last.reports
  /\ tot_block > 0 /\ mem_base.first # NULL

\* What mem_calloc(len) followed by mem_free of the pointer it returned would
\* leave in the counters of the bound backend.
CallocThenFree(len) ==
  IF dispatch["mem_calloc"] = GUARDED
  THEN LET r == mem_guarded_calloc(GState, NextSlot, len, "tag")
           f == mem_guarded_free(r.g, r.result, r.block, ALLOC_FREE, leak_detector_has_run)
       IN [zeroed |-> r.g.mem[r.block].zeroed,
           payload |-> r.g.mem[r.block].len,
           blocks |-> f.g.tot_block, bytes |-> f.g.mem_in_use]
  ELSE LET r == mem_lockfree_calloc(LState, NextSlot, len, "tag")
           f == mem_lockfree_free(r.l, r.result, r.block, ALLOC_FREE, leak_detector_has_run)
       IN [zeroed |-> r.l.mem[r.block].zeroed,
           payload |-> MEMHEAD_LEN(r.l.mem[r.block]),
           blocks |-> f.l.block_num, bytes |-> f.l.mem_in_use]

SlotIndices(s) == 1..Len(s)
HoldsKey(s, key) == \E i \in SlotIndices(s) : is_occupied(s[i]) /\ is_equal(key, s[i].key)
HoldsItem(s, key, value) ==
  \E i \in SlotIndices(s) : is_occupied(s[i]) /\ is_equal(key, s[i].key) /\ s[i].value = value
NoEqualKeys(s) ==
  \A i, j \in SlotIndices(s) :
    (is_occupied(s[i]) /\ is_occupied(s[j]) /\ is_equal(s[i].key, s[j].key)) => i = j
Returned(call) == call.result \in {"true", "false"}

\* C16: add returns true iff no occupied slot held an equal key before the
\* call; at most one occupied slot holds any key; a call that returns false
\* leaves the slot of the key as it was; after a call that returned the key
\* is held by an occupied slot, whatever its hash value.
C16_Original ==
  /\ [][Returned(hm_last')
          => (hm_last'.result = "true" <=> ~HoldsKey(slots_, hm_last'.key))]_vars
  /\ [](NoEqualKeys(slots_))
  /\ [][hm_last'.result = "false"
          => \A i \in SlotIndices(slots_) :
               (is_occupied(slots_[i]) /\ is_equal(hm_last'.key, slots_[i].key))
                 => (i \in SlotIndices(slots_') /\ slots_'[i] = slots_[i])]_vars
  /\ [][Returned(hm_last') => HoldsKey(slots_', hm_last'.key)]_vars

\* The step is an add call that ran realloc_and_reinsert and came back from it.
GrowthStep == hm_last'.grew /\ hm_last'.result \notin {"lost", "none"}

\* C17: growth preserves the key set: every key occupied before the growth
\* is occupied, with its value, in the new slot array, which is the map's
\* slot array when the growth is over; no two occupied slots of it hold equal
\* keys; no removed slot survives; size() is the same before and after.
C17_Original ==
  [][GrowthStep
       => /\ \A i \in SlotIndices(slots_) :
               is_occupied(slots_[i])
                 => HoldsItem(hm_last'.new_slots, slots_[i].key, slots_[i].value)
          /\ NoEqualKeys(hm_last'.new_slots)
          /\ \A j \in SlotIndices(hm_last'.new_slots) :
               hm_last'.new_slots[j].state # REMOVED
          /\ Len(slots_') = Len(hm_last'.new_slots)
          /\ (occupied_and_removed_slots_' - removed_slots_')
               - (IF hm_last'.result = "true" THEN 1 ELSE 0)
             = occupied_and_removed_slots_ - removed_slots_]_vars

\* C18: after any sequence of add calls occupied_and_removed_slots_ is at
\* most usable_slots_ and usable_slots_ is at most half the size of the slot
\* array.
C18_Original ==
  /\ occupied_and_removed_slots_ <= usable_slots_
  /\ usable_slots_ <= Len(slots_) \div 2

\* C19 as stated: an add call that returns false changes neither the slot
\* array nor any counter nor the mask.
C19_Original ==
  [][hm_last'.result = "false"
       => UNCHANGED <<slots_, occupied_and_removed_slots_, removed_slots_, usable_slots_,
                      slot_mask_>>]_vars

\* C19 amended: an add call that returns false and did not have to make room
\* first (occupied_and_removed_slots_ < usable_slots_ when it was called)
\* changes neither the slot array nor any counter nor the mask; a call that
\* finds the table full runs realloc_and_reinsert before it probes, even when
\* the key is present, and leaves the slot array and both slot counts as they
\* were.
C19_FalseAddFrame ==
  [][hm_last'.result = "false"
       => /\ UNCHANGED <<slots_, occupied_and_removed_slots_, removed_slots_>>
          /\ hm_last'.grew <=> occupied_and_removed_slots_ >= usable_slots_
          /\ ~hm_last'.grew => UNCHANGED <<usable_slots_, slot_mask_>>]_vars

\* C19 witness: a key that is present was added again to a table with room
\* left, and the call returned false.
C19_Witness ==
  /\ hm_last.result = "false" /\ ~hm_last.grew
  /\ HoldsKey(slots_, hm_last.key)
  /\ occupied_and_removed_slots_ < usable_slots_

\* C20: when the key or the value constructor throws while add occupies a
\* slot, the exception leaves add, the slot is not occupied and holds neither
\* a constructed key nor a constructed value, and occupied_and_removed_slots_
\* and size() are what they were.
C20_ThrowLeavesSlot ==
  [][(hm_last'.throws # "none" /\ hm_last'.result \notin {"false", "hang", "lost"})
       => /\ hm_last'.result = "throw"
          /\ hm_last'.idx + 1 \in SlotIndices(slots_')
          /\ ~is_occupied(slots_'[hm_last'.idx + 1])
          /\ ~slots_'[hm_last'.idx + 1].key_live
          /\ ~slots_'[hm_last'.idx + 1].value_live
          /\ occupied_and_removed_slots_' = occupied_and_removed_slots_
          /\ occupied_and_removed_slots_' - removed_slots_'
               = occupied_and_removed_slots_ - removed_slots_]_vars

\* C20 witness: the key constructor threw while a slot of a map that holds
\* another key was being occupied.
C20_Witness ==
  /\ hm_last.result = "throw" /\ hm_last.throws = "key"
  /\ occupied_and_removed_slots_ > 0
  /\ slots_[hm_last.idx + 1] = EmptySlot


\* ---- properties of the containers ---------------------------------------
\* The Array's storage is where the claim says it is: the inline buffer and no
\* heap block up to InlineBufferCapacity elements, and beyond it what the
\* allocator returned, a live block unless the allocation failed.
ArrayStorage ==
  array_.alive =>
    IF array_.size_ <= InlineBufferCapacity
    THEN array_.data_ = INLINE_BUFFER
    ELSE /\ array_.data_ = HEAP_BLOCK
         /\ array_.ptr # NULL => BlockOfPtr(array_.ptr) \in live

\* The same for a Vector.
VectorStorage(v) ==
  IF vector_size(v) <= InlineBufferCapacity THEN is_inline(v) ELSE ~is_inline(v)

\* The step destroys an Array that holds a block of the allocator.
HeapArrayDestroyed ==
  c_last'.op = "~Array" /\ array_.alive /\ ~array_'.alive
  /\ array_.data_ = HEAP_BLOCK /\ array_.ptr # NULL

\* C21: an Array or Vector of at most InlineBufferCapacity elements has its
\* data pointer at the inline buffer and owns no heap block; one of more
\* elements has its data pointer at a block obtained from the allocator, and
\* that block is handed back to the allocator when the container is destroyed.
C21_Original ==
  /\ [](ArrayStorage)
  /\ [](~vec.lost => VectorStorage(vec))
  /\ [][HeapArrayDestroyed
          => (BlockOfPtr(array_.ptr) \in live /\ live' = live \ {BlockOfPtr(array_.ptr)})]_vars

\* C22: after appending v_0 .. v_(N-1) to an empty Vector, for N below, at
\* and above InlineBufferCapacity, size() is N and operator[] reads v_i at
\* every index i below N.
C22_Original ==
  /\ ~vec.lost
  /\ vector_size(vec) = Len(vec.appended)
  /\ Len(vec.data) = Len(vec.appended)
  /\ \A i \in 1..Len(vec.appended) : vec.data[i] = vec.appended[i]

\* C23: append changes the capacity only when size() = capacity() before the
\* call and then at least doubles it; with size() below capacity() it changes
\* neither the storage pointer nor the capacity; and 0 <= size() <=
\* capacity() after every operation.
C23_Original ==
  /\ [][c_last'.op = "append"
          => /\ capacity(vec') # capacity(vec)
                  => (vector_size(vec) = capacity(vec)
                      /\ capacity(vec') >= 2 * capacity(vec))
             /\ vector_size(vec) < capacity(vec)
                  => (vec'.begin_ = vec.begin_ /\ capacity(vec') = capacity(vec))]_vars
  /\ [](0 <= vector_size(vec) /\ vector_size(vec) <= capacity(vec))

\* C24: prepend(v) on a vector holding e_0 .. e_(n-1) yields size n + 1 with
\* v at index 0 and e_i at index i + 1; add_callback with CB_ADD_FRONT puts
\* the callback before all existing ones, with CB_ADD_END after them.
C24_Original ==
  /\ [][c_last'.op = "prepend"
          => (vector_size(vec') = vector_size(vec) + 1
              /\ vec'.data = <<c_last'.arg>> \o vec.data)]_vars
  /\ [][c_last'.op = CB_ADD_FRONT
          => callbacks_'.data = <<c_last'.arg>> \o callbacks_.data]_vars
  /\ [][c_last'.op = CB_ADD_END
          => callbacks_'.data = Append(callbacks_.data, c_last'.arg)]_vars

\* The step is a VectorMap::add call with a key an occupied slot holds.
AddOfPresentKey ==
  c_last'.op = "VectorMap::add" /\ vector_' # vector_ /\ HoldsKey(slots_, hm_last'.key)

\* C25: VectorMap::add with a key that is present returns false, leaves the
\* slot of the key as it was and still appends the value to the vector, so
\* size() grows by one and no slot holds the index of the new element.
C25_Original ==
  [][AddOfPresentKey
       => /\ hm_last'.result = "false"
          /\ \A i \in SlotIndices(slots_) :
               (is_occupied(slots_[i]) /\ is_equal(hm_last'.key, slots_[i].key))
                 => (i \in SlotIndices(slots_') /\ slots_'[i] = slots_[i])
          /\ vector_size(vector_') = vector_size(vector_) + 1
          /\ \A j \in SlotIndices(slots_') :
               is_occupied(slots_'[j]) => slots_'[j].value # c_last'.result]_vars

\* C30: the number of slots is a power of two, slot_mask_ is that number
\* minus one, and no add call probes an index outside the slot array.
C30_Original ==
  /\ Len(slots_) >= 1 /\ IS_POW2(Len(slots_))
  /\ slot_mask_ = Len(slots_) - 1
  /\ ERR_INDEX \notin hm_last.reports

\* ---- properties of corrupted blocks --------------------------------------
\* The block's boundary tags are not the ones the allocator wrote and it does
\* not carry the marks of a freed block either.
CorruptTags(b) ==
  /\ ~guarded_double_free(mem[b])
  /\ BadHeader(mem, b) \/ mem[b].tag3 # MEMTAG3

\* The blocks linked in the guarded list, first to last.
ListedBlocks == {e.block : e \in {mem_print_memlist[i] : i \in DOMAIN mem_print_memlist}}

\* C28 as stated: in guarded mode a free of a block whose header tags or
\* tail tag were overwritten prints a diagnostic and leaves the live-block
\* counter and the byte counter unchanged.
C28_Original ==
  [][\A b \in Blocks :
       (dispatch["mem_free"] = GUARDED /\ FreeStepOn(b) /\ CorruptTags(b))
         => /\ last'.reports # {}
            /\ tot_block' = tot_block
            /\ mem_in_use' = mem_in_use]_vars

\* ---- properties of the guarded block list ---------------------------------
\* The blocks mem_print_memlist enumerates, in the order it prints them.
PrintedBlocks == [i \in DOMAIN mem_print_memlist |-> mem_print_memlist[i].block]

\* first/last and every next/prev pair of the list l agree with each other.
LinksConsistent(l) ==
  /\ mem_base.first = (IF l = <<>> THEN NULL ELSE l[1])
  /\ mem_base.last = (IF l = <<>> THEN NULL ELSE l[Len(l)])
  /\ \A i \in DOMAIN l :
       /\ mem[l[i]].next = (IF i = Len(l) THEN NULL ELSE l[i + 1])
       /\ mem[l[i]].prev = (IF i = 1 THEN NULL ELSE l[i - 1])

\* The system allocator serves the lowest free slot and the guarded backend
\* never hands storage back, so of two guarded blocks the one in the lower
\* slot was allocated first.
InAllocationOrder(l) == \A i, j \in DOMAIN l : i < j => l[i] < l[j]

C26_LockfreeCounters ==
  (AllBound(LOCKFREE) /\ ThreadsIdle)
    => /\ lf_block_num = Cardinality(live)
       /\ lf_mem_in_use = LiveBytes

\* C26 witness: all calls have returned, an allocation and a free of two
\* different threads overlapped with another call, and the allocated block
\* is still live.
C26_Witness ==
  /\ AllBound(LOCKFREE) /\ ThreadsIdle
  /\ \E t, u \in Threads :
       /\ t # u
       /\ thr[t].op = "mem_free" /\ thr[t].raced
       /\ thr[u].op \in AllocCalls /\ thr[u].raced /\ thr[u].block \in live

\* The blocks linked in the guarded list and the sum of their lengths.
LinkedBlocks ==
  LET l == PrintWalk(mem, mem_base.first, MaxBlocks) IN {l[i].block : i \in DOMAIN l}
LinkedBytes == SumOver(LinkedBlocks, [b \in Blocks |-> mem[b].len])

\* C27 as stated: in guarded mode, whenever a thread holds the mutex the
\* live-block counter equals the number of blocks linked in the list and
\* the byte counter equals the sum of their lengths.
C27_Original ==
  thread_lock # 0
    => /\ tot_block = Cardinality(LinkedBlocks)
       /\ mem_in_use = LinkedBytes

\* ---- properties of the probing sequence -----------------------------------
\* The sequence as the recurrence p_0 = h, p_(i+1) = p_i >> 5, h_0 = h,
\* h_(i+1) = 5 h_i + 1 + p_(i+1), s_i = h_i & m.  Masks stay below
\* ProbeModulus, so h_i is needed modulo ProbeModulus only.
RECURSIVE RecurrenceP(_, _)
RecurrenceP(h, i) == IF i = 0 THEN h ELSE RecurrenceP(h, i - 1) \div 32

RECURSIVE RecurrenceH(_, _)
RecurrenceH(h, i) ==
  IF i = 0 THEN h % ProbeModulus
  ELSE (5 * RecurrenceH(h, i - 1) + 1 + RecurrenceP(h, i)) % ProbeModulus

RecurrenceSlot(h, m, i) == BitAnd(RecurrenceH(h, i), m)

\* In the slot array s, position k of the sequence for (h, m) is the first
\* that is an Empty slot.
FirstEmptyOfSequence(s, h, m, k) ==
  /\ is_empty(s[RecurrenceSlot(h, m, k) + 1])
  /\ \A i \in 0..(k - 1) : ~is_empty(s[RecurrenceSlot(h, m, i) + 1])

\* C31: add_impl of a key the map does not hold returns true and stores the
\* key in the first Empty slot of the sequence s_0, s_1, ... that the
\* recurrence gives for the hash and the slot mask, and changes no other slot.
C31_ProbeSequence ==
  pure.op = "add_impl"
    => LET before == TableOf(pure.args.n, pure.args.occ).slots
           idx == pure.out[1]
       IN /\ pure.kind = "true"
          /\ pure.slots[idx + 1].state = OCCUPIED
          /\ pure.slots[idx + 1].key = NEW_KEY
          /\ \A i \in DOMAIN before : i # idx + 1 => pure.slots[i] = before[i]
          /\ \E k \in 0..(MaxProbes - 1) :
               /\ RecurrenceSlot(pure.args.hash, pure.args.n - 1, k) = idx
               /\ FirstEmptyOfSequence(before, pure.args.hash, pure.args.n - 1, k)

\* C31 witness: the key was stored at the third position of its sequence or
\* later, the hash having bits above the lowest five.
C31_Witness ==
  /\ pure.op = "add_impl" /\ pure.kind = "true"
  /\ pure.args.hash >= 32
  /\ \A k \in 0..1 :
       RecurrenceSlot(pure.args.hash, pure.args.n - 1, k) \in pure.args.occ

\* C32 as stated: the probing loop of every add call comes to an end, the
\* load factor leaving an Empty slot for it to find.
C32_Original == hm_last.result # "hang"

\* ---- properties of the size of the hash map -------------------------------
OccupiedSlots(s) == {i \in SlotIndices(s) : is_occupied(s[i])}

MappedIndices == {i \in SlotIndices(slots_) : is_occupied(slots_[i])}

\* C34: every key of map_ is associated with an index below the size of
\* vector_, distinct keys with distinct indices, the element at that index is
\* the value passed to the add call that inserted the key, and begin()..end()
\* yields the values in the order of the add calls.
C34_Original ==
  /\ \A i \in MappedIndices :
       /\ slots_[i].value >= 0 /\ slots_[i].value < vector_size(vector_)
       /\ vector_.data[slots_[i].value + 1] = vector_.appended[slots_[i].value + 1]
  /\ \A i, j \in MappedIndices : i # j => slots_[i].value # slots_[j].value
  /\ vector_.data = vector_.appended

\* C35: destroying a VectorMap runs the destructor of each live key exactly
\* once, runs no destructor on a key that is not alive, and frees no block
\* twice.
C35_Original ==
  c_last.op = "~VectorMap"
    => /\ c_last.result.key_dtors = c_last.arg
       /\ c_last.result.dead_key_dtors = 0
       /\ c_last.result.deallocate <= 1

\* ---- properties of concurrent frees of one block --------------------------
\* Thread t calls mem_free in this step on a block that another thread is
\* inside mem_free of.
SecondFreeStarts(t) ==
  /\ thr[t].at = 0 /\ thr'[t] # thr[t] /\ thr'[t].op = FREE_SHARED
  /\ \E u \in Threads \ {t} :
       thr[u].op = FREE_SHARED /\ thr[u].at # 0 /\ thr[u].block = thr'[t].block

\* C36: in guarded mode, of two free calls on the same live pointer that
\* overlap, the one that starts second is reported as a double free and
\* removes nothing, under every interleaving.
C36_Original ==
  [][\A t \in Threads :
       SecondFreeStarts(t) => (thr'[t].at = 0 /\ ERR_DOUBLE_FREE \in thr'[t].reports)]_vars

\* ---- properties of the error callback -------------------------------------
\* The step is an allocator call that prints a diagnostic.
PrintsDiagnostic ==
  last' # last /\ last'.op \in {"mem_calloc", "mem_free"} /\ last'.reports # {}

\* C37: once a callback has been registered through mem_set_error_callback,
\* every later diagnostic of an allocator call is delivered to it and not to
\* standard error, whether mem_use_guarded_allocator was called before or
\* after the registration.
C37_Original ==
  [][(registered # NO_CALLBACK /\ PrintsDiagnostic)
       => print_error(dispatch[last'.op]) = registered]_vars

\* ---- properties of the slot amount ----------------------------------------
\* T is the smallest power of two, 1 included, with T * numerator /
\* denominator >= min_usable_slots.
SmallestSufficientPowerOf2(T, a) ==
  /\ T >= 1 /\ \E e \in 0..WordBits : T = 2 ^ e
  /\ T * a.numerator >= a.min_usable_slots * a.denominator
  /\ T > 1 => (T \div 2) * a.numerator < a.min_usable_slots * a.denominator

\* The exact ceil(min_usable_slots * denominator / numerator).
ExactCeil(a) ==
  (a.min_usable_slots * a.denominator + a.numerator - 1) \div a.numerator

\* C38 as stated: for every min_usable_slots >= 0 and every load factor the
\* result is the smallest power of two T >= 1 with
\* T * numerator / denominator >= min_usable_slots.
C38_Original ==
  pure.op = "total_slot_amount_for_usable_slots"
    => SmallestSufficientPowerOf2(pure.out[1], pure.args)

\* C38: the result is the smallest power of two T >= 1 with
\* T * numerator / denominator >= min_usable_slots whenever
\* min_usable_slots * denominator fits the unsigned type and the power of two
\* fits the signed one, that is ceil(min_usable_slots * denominator /
\* numerator) <= 2^(WordBits - 2).
C38_SlotAmount ==
  (/\ pure.op = "total_slot_amount_for_usable_slots"
   /\ pure.args.min_usable_slots * pure.args.denominator <= SIZE_MAX
   /\ ExactCeil(pure.args) <= 2 ^ (WordBits - 2))
    => SmallestSufficientPowerOf2(pure.out[1], pure.args)

\* C38 witness: the division leaves a remainder and the quotient rounded up
\* is no power of two, so that both roundings act.
C38_Witness ==
  /\ pure.op = "total_slot_amount_for_usable_slots"
  /\ pure.args.min_usable_slots * pure.args.denominator <= SIZE_MAX
  /\ (pure.args.min_usable_slots * pure.args.denominator) % pure.args.numerator # 0
  /\ pure.out[1] > ExactCeil(pure.args)
  /\ pure.out[1] >= 8
  /\ SmallestSufficientPowerOf2(pure.out[1], pure.args)

\* ---- properties of the checked multiplication -----------------------------
\* No block has been allocated.
NoBlockAllocated ==
  /\ live = {} /\ tot_block = 0 /\ mem_in_use = 0
  /\ \A b \in Blocks : mem[b].sys = "unalloc"

\* C39: mem_size_safe_multiply(a, b, &r) sets r to (a * b) mod 2^WordBits and
\* returns true exactly when the product a * b is below 2^WordBits, and
\* mem_guarded_malloc_array allocates no block when the product is not.
C39_SafeMultiply ==
  /\ pure.op \in {"mem_size_safe_multiply", "mem_guarded_malloc_array"}
       => /\ pure.out[1] = (pure.args.a * pure.args.b) % WordModulus
          /\ (pure.kind = "true") <=> (pure.args.a * pure.args.b < WordModulus)
  /\ (pure.op = "mem_guarded_malloc_array" /\ pure.args.a * pure.args.b >= WordModulus)
       => (NoBlockAllocated /\ phase = "aborted")

\* C39 witness: mem_guarded_malloc_array was called with a product that does
\* not fit, of which the low bits are not zero, and a second operand that
\* fits the low half, so that the division decides.
C39_Witness ==
  /\ pure.op = "mem_guarded_malloc_array"
  /\ pure.args.a * pure.args.b >= WordModulus
  /\ pure.out[1] # 0
  /\ pure.args.b < 2 ^ (WordBits \div 2)
  /\ pure.kind = "false" /\ phase = "aborted" /\ NoBlockAllocated


====
